---- MODULE Spec2Model ----
(***************************************************************************)
(* Verification model of tinyserve's staged apply-and-promote engine.      *)
(*                                                                         *)
(* Spec         the deploy engine of internal/api/api.go: two request      *)
(*              goroutines running handleDeploy / HandleWebhookDeploy +    *)
(*              applyConfig over one generated root and one backups        *)
(*              directory, one file-system call per step.                  *)
(* SpecApi      the request handlers in front of the state store: POST     *)
(*              /services, POST /tokens and POST /webhook/deploy/{name},   *)
(*              one Store call per step, the engine run of a webhook       *)
(*              deploy taken as one step.                                  *)
(* SpecReq      one deploy request at a time over a store with two         *)
(*              services: its body (service, services), its kind and the   *)
(*              cancellation of its context.                               *)
(* SpecPrune    pruneBackups called on its own over a directory listing.   *)
(* SpecStore    a Store (SQLiteStore, FileStore or InMemoryStore) called   *)
(*              by two goroutines, one lock, query or file-system call per *)
(*              step.                                                      *)
(* SpecHook     webhook deploys over a state with one token and one        *)
(*              service, enabled or disabled.                              *)
(* SpecTokens   POST /tokens, GET /tokens and DELETE /tokens/{id} beside   *)
(*              webhook requests that authenticate with the tokens.        *)
(* SpecRevoke   DELETE /tokens/{id} beside webhook deploys, over a state   *)
(*              with one token and one service.                            *)
(* SpecDuring   POST /services beside webhook deploys, over the same       *)
(*              state.                                                     *)
(* SpecRollback POST /rollback over a backups directory, one file-system   *)
(*              call per step, with the wall clock.                        *)
(* SpecWait     Runner.WaitHealthy polling docker compose ps.              *)
(* SpecWriters  POST /rollback beside one deploy, over a generated root    *)
(*              that has current/ and one backup.                          *)
(* SpecDeadline the loop of Runner.WaitHealthy against the clock: deadline *)
(*              test, docker compose ps, then ticker or context.           *)
(* SpecAdd      POST /services with its whole body (enabled, cloudflare)   *)
(*              over a state with the tunnel set up.                       *)
(* SpecGen      generate.GenerateBaseFiles run repeatedly on one State.    *)
(* SpecDaemon   run: the three HTTP servers, the signal and the shutdown.  *)
(***************************************************************************)
EXTENDS Integers, Sequences, FiniteSets, TLC

(* ------------------------------------------------------------------ *)
(* Bounds                                                              *)
(* ------------------------------------------------------------------ *)

\* number of deploy requests issued in one behaviour
MaxDeploys == 2

\* last value of the wall clock, in seconds (backup names carry seconds)
MaxClock == 1

\* settings.max_backups as configured in the state document
MaxBackupsSetting == 1

\* file-system and store calls that fail with an I/O error in one behaviour
MaxFaults == 1

\* number of POST /services, POST /tokens and webhook requests in one behaviour
MaxRequests == 2

\* timestamps 1..MaxStamp that the names in a backups directory may carry
MaxStamp == 11

\* greatest settings.max_backups handed to a pruneBackups call on its own
MaxKeepArg == 2

\* number of Store.Load and Store.Save calls made on a store in one behaviour
MaxStoreOps == 3

\* number of POST /rollback requests in one behaviour
MaxRollbacks == 2

\* containers in one answer of docker compose ps, and PSStatus polls of one
\* WaitHealthy call
MaxContainers == 2
MaxPolls == 2

\* requests in flight on one HTTP server of the daemon
MaxConns == 2

\* keys an Env map of a service may hold
MaxEnv == 2

\* runs of the generator on one State
MaxRuns == 2

\* seconds that pass during one call of WaitHealthy
MaxTime == 5

(* ------------------------------------------------------------------ *)
(* Program constants                                                   *)
(* ------------------------------------------------------------------ *)

\* state-dependent files of a bundle, in filepath.Walk (lexical) order:
\* 1 = cloudflared/config.yml, 2 = docker-compose.yml
NumFiles == 2
ComposeFile == 2

\* pruneBackups' fallback when maxKeep <= 0
DefaultMaxBackups == 10

\* the request goroutines that may be inside a deploy at the same time
Handlers == {"h1", "h2"}
Before(g, h) == g = "h1" /\ h = "h2"

Kinds == {"api", "webhook"}

\* the request goroutines that may be inside the state handlers at the same time
Reqs == {1, 2}

\* the secrets a presented bearer token may spell
Secrets == {1, 2}

\* time.NewTicker(2 * time.Second) in WaitHealthy
TickerPeriod == 2

\* auth.TokenByteLen: a token is "ts_" followed by 2 * TokenByteLen hex digits
TokenByteLen == 32

(* ------------------------------------------------------------------ *)
(* Directories                                                         *)
(* ------------------------------------------------------------------ *)

\* content of a file: absent, cut short, or the complete file of bundle b >= 1
Missing == 0
Partial == -1

FileIdx == 1..NumFiles

\* a directory that does not exist / exists without files / a whole bundle
NoDir == << >>
EmptyDir == [i \in FileIdx |-> Missing]
Bundle(b) == [i \in FileIdx |-> b]

IsEmpty(d) == d = EmptyDir
Exists(d) == d # NoDir

\* os.MkdirAll: creates the directory when absent, keeps it otherwise
MkdirAll(d) == IF d = NoDir THEN EmptyDir ELSE d

\* os.Rename of a directory succeeds when the source exists and the
\* destination is absent or an empty directory
RenameOk(src, dst) == Exists(src) /\ (dst = NoDir \/ IsEmpty(dst))

\* copyDir, one file-system call per step.  Step 0 is Walk's visit of the root
\* (MkdirAll of the destination); file f is copied by copyFile in two steps:
\* 2f-1 opens the source and creates/truncates the destination (O_TRUNC), 2f is
\* io.Copy and Close.  buf is the content read through the open source; ioErr
\* is an I/O error of the call.  A vanished source is reported by Walk and
\* returned.  A write through a descriptor whose file has meanwhile been moved
\* or removed does not show under the destination path.
CopySteps == 2 * NumFiles
FileOf(i) == (i + 1) \div 2
copyDirStep(src, dst, i, buf, ioErr) ==
  IF i = 0 THEN
    IF ~Exists(src) \/ ioErr THEN [dst |-> dst, buf |-> Missing, err |-> TRUE]
    ELSE [dst |-> MkdirAll(dst), buf |-> Missing, err |-> FALSE]
  ELSE IF i % 2 = 1 THEN
    IF ~Exists(src) THEN [dst |-> dst, buf |-> Missing, err |-> TRUE]
    ELSE IF src[FileOf(i)] = Missing THEN [dst |-> dst, buf |-> Missing, err |-> FALSE]
    ELSE IF ioErr THEN [dst |-> dst, buf |-> Missing, err |-> TRUE]
    ELSE [dst |-> [MkdirAll(dst) EXCEPT ![FileOf(i)] = Partial],
          buf |-> src[FileOf(i)], err |-> FALSE]
  ELSE
    IF buf = Missing THEN [dst |-> dst, buf |-> Missing, err |-> FALSE]
    ELSE IF ioErr THEN [dst |-> dst, buf |-> Missing, err |-> TRUE]
    ELSE IF ~Exists(dst) \/ dst[FileOf(i)] # Partial
      THEN [dst |-> dst, buf |-> Missing, err |-> FALSE]
    ELSE [dst |-> [dst EXCEPT ![FileOf(i)] = buf], buf |-> Missing, err |-> FALSE]

\* the k greatest elements of a set of names (sort.Strings, keep the tail)
Newest(S, k) == {x \in S : Cardinality({y \in S : y > x}) < k}

Range(q) == {q[n] : n \in 1..Len(q)}

\* An entry of the backups directory: its name, cut into prefix, timestamp
\* (fixed width, "20060102-150405") and what follows, and whether it is a
\* directory.  Within one prefix the byte order of two names is the order of
\* their timestamps, then of their tails ("" < "-current" < ".json" < ".txt").
Entry(pre, ts, tail, isDir) == [pre |-> pre, ts |-> ts, tail |-> tail, isDir |-> isDir]
TailRank(tail) ==
  CASE tail = "" -> 0 [] tail = "-current" -> 1 [] tail = ".json" -> 2 [] OTHER -> 3
NameLess(a, b) ==
  a.ts < b.ts \/ (a.ts = b.ts /\ TailRank(a.tail) < TailRank(b.tail))

\* sort.Strings over names of one prefix
RECURSIVE SortStrings(_)
SortStrings(S) ==
  IF S = {} THEN << >>
  ELSE LET m == CHOOSE x \in S : \A y \in S : ~NameLess(y, x)
       IN <<m>> \o SortStrings(S \ {m})

\* the other end of the slice: names[len(names)-maxKeep:]
KeptTail(names, maxKeep) ==
  IF Len(names) > maxKeep THEN SubSeq(names, Len(names) - maxKeep + 1, Len(names))
  ELSE << >>

\* names[:len(names)-maxKeep] when len(names) > maxKeep: the names removed
Oldest(names, maxKeep) ==
  IF Len(names) > maxKeep THEN SubSeq(names, 1, Len(names) - maxKeep) ELSE << >>

\* maxBackups as handleDeploy and applyConfig compute it from the settings
CallerKeep(setting) == IF setting = 0 THEN DefaultMaxBackups ELSE setting

\* pruneBackups(maxKeep) over the listing of the backups directory: the
\* entries that are left
Pruned(entries, maxKeep) ==
  LET keep == IF maxKeep <= 0 THEN DefaultMaxBackups ELSE maxKeep
      isBackup(e) == e.pre = "backup-" /\ e.isDir
      sortedDirs == SortStrings({e \in entries : isBackup(e)})
      sortedFiles == SortStrings({e \in entries :
                        ~isBackup(e) /\ e.pre = "state-" /\ e.tail = ".json"})
  IN entries \ (Range(Oldest(sortedDirs, keep)) \cup Range(Oldest(sortedFiles, keep)))

(* ------------------------------------------------------------------ *)
(* The state document                                                  *)
(* ------------------------------------------------------------------ *)

\* A service name or hostname is a pair <<letters, spelling>>: the text with
\* its letters in lower case, and which upper/lower-case spelling of it this is
\* (spelling 0 is the all-lower-case one).
ToLower(s) == <<s[1], 0>>

\* a byte-wise comparison
EqualBytes(a, b) == a = b

\* strings.EqualFold
EqualFold(a, b) == ToLower(a) = ToLower(b)

\* the same text whatever the letter case
SameText(a, b) == a[1] = b[1]

ServiceNames == {<<"app", 0>>, <<"app", 1>>, <<"web", 0>>}
Hostnames == {<<"a.io", 0>>, <<"a.io", 1>>, <<"b.io", 0>>}

\* images a request may carry: none, a well-formed one, one that
\* validate.ImageName rejects
Images == {"", "nginx", "ng inx"}
ImageName(image) == image = "nginx"

\* state.NewState: no services, no tokens, the default project name
NewState ==
  [project |-> "tinyserve", services |-> << >>, tokens |-> << >>, cloudflare |-> FALSE]

\* State.Validate
Validate(s) == s.project # ""

\* the text of a bearer token: its prefix, the length of what follows, whether
\* that decodes as hex, and which secret it spells
TokenText(k) == [prefix |-> "ts_", hexlen |-> 2 * TokenByteLen, hex |-> TRUE, secret |-> k]
Malformed ==
  { [TokenText(1) EXCEPT !.prefix = "tk_"],
    [TokenText(1) EXCEPT !.hexlen = 2 * TokenByteLen - 1],
    [TokenText(1) EXCEPT !.hex = FALSE] }

\* auth.IsValidTokenFormat
IsValidTokenFormat(token) ==
  /\ token.prefix = "ts_"
  /\ token.hexlen = TokenByteLen * 2
  /\ token.hex

\* auth.HashToken and auth.VerifyToken: bcrypt accepts exactly the plaintext
\* that was hashed
HashToken(plaintext) == <<"bcrypt", plaintext>>

\* a comparison that looks at the hash scheme only
VerifySchemeOnly(plaintext, hash) == hash[1] = "bcrypt"

VerifyToken(plaintext, hash) == hash = HashToken(plaintext)

\* a value of a JSON answer: what kind of text it is and which one; the text
\* of a token ("ts_...") and the text of a bcrypt hash
Text(kind, n) == [kind |-> kind, n |-> n]
StrToken(token) == Text(token.prefix, token.secret)
StrHash(hash) == Text(hash[1], hash[2].secret)

\* the token IDs a DELETE /tokens/{id} may name
TokenIDs == 1..MaxRequests

\* the hostname lists and the ?timeout= values a request may carry
HostSets ==
  {{}} \cup {{x} : x \in Hostnames} \cup {{<<"a.io", 1>>, <<"b.io", 0>>}}
Timeouts == {"", "0"}

\* Authorization headers: absent, another scheme, Bearer with a malformed or
\* a well-formed token
NoHeader == [scheme |-> "", token |-> TokenText(0)]
Headers ==
  {NoHeader, [scheme |-> "Basic", token |-> TokenText(1)]}
     \cup {[scheme |-> "Bearer", token |-> t] : t \in Malformed}
     \cup {[scheme |-> "Bearer", token |-> TokenText(k)] : k \in Secrets}

(* ------------------------------------------------------------------ *)
(* State                                                               *)
(* ------------------------------------------------------------------ *)

VARIABLES
  now,        \* time.Now() in seconds
  current,    \* <generated_root>/current
  staging,    \* <generated_root>/.staging-<ts>, by ts
  backups,    \* <backups>/backup-<ts>, by ts
  stateFiles, \* the ts of the <backups>/state-<ts>.json files
  pc,         \* position of each request goroutine
  dep,        \* locals of each request goroutine
  issued,     \* deploy requests received so far
  faults,     \* I/O errors injected so far
  store,      \* the state document behind Store.Load / Store.Save
  req,        \* locals of each state-handler goroutine
  nreq,       \* state-handler requests received so far
  pure,       \* a function called on its own: its arguments and what it returned
  impl,       \* the Store implementation behind the calls of a store on its own
  disk,       \* what that store holds: tables, a file, or a State in memory
  mu,         \* its sync.RWMutex: the writer inside and the readers inside
  cl,         \* the goroutines calling that store
  nops,       \* the calls made on it so far
  last,       \* the State of the last Save that returned nil
  aside,      \* <backups>/backup-<ts>-current, by ts
  rb,         \* locals of the goroutine inside handleRollback
  nrb,        \* POST /rollback requests received so far
  daemon      \* tinyserved's run: its position, its three servers, the drain

vars ==
  <<now, current, staging, backups, stateFiles, pc, dep, issued, faults,
    store, req, nreq, pure, impl, disk, mu, cl, nops, last, aside, rb, nrb,
    daemon>>
storeVars == <<impl, disk, mu, cl, nops, last>>
rollbackVars == <<aside, rb, nrb>>
daemonVars == <<daemon>>
callVars == <<pure, impl, disk, mu, cl, nops, last, aside, rb, nrb, daemon>>
engineVars == <<now, current, staging, backups, stateFiles, pc, dep, issued>>
apiVars == <<store, req, nreq>>

\* the outcomes of a call that can fail with an I/O error: TRUE is the error
IOErr == IF faults < MaxFaults THEN BOOLEAN ELSE {FALSE}
Fault(e) == faults' = IF e THEN faults + 1 ELSE faults

Clock == 0..MaxClock

\* phases are the phases a deploy has started, cur0 is current/ as a request
\* that is served alone found it, overlap the deploys that were in flight together with it, herr the
\* error WaitHealthy returned, msg the texts the error response contains;
\* service and services are the fields of the request body (service also the
\* {name} of a webhook URL), targets what Pull, Up and WaitHealthy are given,
\* ctx the state of the request's context, ctxErr the calls after UP that
\* returned the context's error
IdleDep ==
  [id |-> 0, kind |-> "", sts |-> 0, ts |-> 0, i |-> 0, buf |-> Missing,
   res |-> "", bkState |-> FALSE, bkConfig |-> FALSE,
   health |-> "", promoted |-> FALSE, moved |-> FALSE, perr |-> FALSE, st |-> NewState,
   phases |-> << >>, cur0 |-> NoDir, overlap |-> {},
   herr |-> "", msg |-> {},
   service |-> <<"", 0>>, services |-> {}, targets |-> {},
   ctx |-> "", ctxErr |-> {}]

\* targets is what a webhook deploy hands to applyConfig, tid the {id} of a
\* DELETE /tokens/{id}, body the values of the JSON answer; enabled and cf are
\* the "enabled" (absent, true or false) and "cloudflare" fields of a POST
\* /services, dns the hostnames for which it had Cloudflare ensure a CNAME;
\* seen is the state a request loaded first, saves the Store.Save calls it
\* made, applied whether it ran applyConfig, raced the requests that had loaded
\* but not yet saved when it saved
IdleReq ==
  [id |-> 0, op |-> "", pc |-> "idle", name |-> <<"", 0>>, hosts |-> {},
   image |-> "", hdr |-> NoHeader, timeout |-> "", st |-> NewState, idx |-> 0,
   saves |-> 0, status |-> 0, loaded |-> FALSE, applied |-> FALSE, raced |-> {},
   seen |-> NewState, targets |-> {}, tid |-> 0, body |-> {},
   enabled |-> "", cf |-> FALSE, dns |-> {}, dnsDone |-> FALSE]

\* no function is being called on its own
NoCall == [f |-> "", arg |-> << >>, ret |-> << >>, done |-> FALSE]

\* the server after construction over the state document st, nothing
\* received yet
IdleOver(st) ==
  /\ now = 0
  /\ current = NoDir
  /\ staging = [t \in Clock |-> NoDir]
  /\ backups = [t \in Clock |-> NoDir]
  /\ stateFiles = {}
  /\ pc = [h \in Handlers |-> "idle"]
  /\ dep = [h \in Handlers |-> IdleDep]
  /\ issued = 0
  /\ faults = 0
  /\ store = st
  /\ req = [r \in Reqs |-> IdleReq]
  /\ nreq = 0

Idle == IdleOver(NewState)

\* no store is called on its own
None == [none |-> TRUE]
Clients == {1, 2}
IdleClient ==
  [pc |-> "idle", op |-> "", arg |-> None, ret |-> None, err |-> "",
   wrote |-> FALSE, during |-> {}]
NoStore ==
  /\ impl = ""
  /\ disk = None
  /\ mu = [w |-> 0, r |-> {}]
  /\ cl = [c \in Clients |-> IdleClient]
  /\ nops = 0
  /\ last = None

\* no POST /rollback has been received and nothing was ever set aside
NoEntry == [ts |-> -1, cur |-> FALSE]
IdleRollback ==
  [pc |-> "idle", target |-> NoEntry, listing |-> {}, chosen |-> NoDir,
   cur0 |-> NoDir, before |-> {}, tmp |-> -1, upOn |-> NoDir,
   restored |-> -1, status |-> 0, from |-> NoEntry]

\* the servers of tinyserved in the order run shuts them down; drain is the
\* 30-second context of the shutdown, attempted the servers whose Shutdown
\* was called
Servers == {"admin", "ui", "webhook"}
Serving ==
  [pc |-> "select", state |-> [s \in Servers |-> "listening"],
   conns |-> [s \in Servers |-> 0], drain |-> "unset", signalled |-> FALSE,
   i |-> 1, attempted |-> {}, ret |-> ""]
NoRollback ==
  /\ aside = [t \in Clock |-> NoDir]
  /\ rb = IdleRollback
  /\ nrb = 0

\* tinyserved with its three servers listening, no signal received
NoDaemon == daemon = Serving

Init == Idle /\ pure = NoCall /\ NoStore /\ NoRollback /\ NoDaemon

\* a goroutine that is inside handleDeploy / HandleWebhookDeploy
InFlight(h) == pc[h] \notin {"idle", "done"}

\* r.Context() of the request is done: the client has gone away
Cancelled(h) == dep[h].ctx = "canceled"

\* http.Error / return err / writeJSON: the request ends with outcome r and
\* its locals are gone; FailIn is the same for a phase that has just started
Gone(d, r) ==
  [d EXCEPT !.res = r, !.sts = 0, !.ts = 0, !.i = 0, !.buf = Missing,
            !.cur0 = NoDir, !.st = NewState]
Fail(h, r) ==
  /\ pc' = [pc EXCEPT ![h] = "done"]
  /\ dep' = [dep EXCEPT ![h] = Gone(@, r)]
FailIn(h, phase, r) ==
  /\ pc' = [pc EXCEPT ![h] = "done"]
  /\ dep' = [dep EXCEPT ![h] = Gone([@ EXCEPT !.phases = Append(@, phase)], r)]

(* ------------------------------------------------------------------ *)
(* The deploy engine: handleDeploy, and HandleWebhookDeploy+applyConfig *)
(* ------------------------------------------------------------------ *)

\* the wall clock advances; only the ticks that a pending time.Now() call can
\* observe are taken (GenerateBaseFiles and the ts of the BACKUP phase read it)
Tick ==
  /\ now < MaxClock
  /\ \E h \in Handlers : pc[h] \in {"gen", "backupState"}
  /\ now' = now + 1
  /\ UNCHANGED <<current, staging, backups, stateFiles, pc, dep, issued, faults>>
  /\ UNCHANGED <<apiVars, callVars>>

\* a request arrives (on the first goroutine whose previous request has
\* returned) and its state snapshot is loaded; nothing keeps a second request
\* from entering while another one is in the pipeline.  What is remembered of
\* the requests that have returned is forgotten at this point.
StartDeploy(h) ==
  /\ pc[h] \in {"idle", "done"}
  /\ \A g \in Handlers : Before(g, h) => InFlight(g)
  /\ issued < MaxDeploys
  /\ issued' = issued + 1
  /\ LET busy == {g \in Handlers \ {h} : InFlight(g)} IN
     dep' = [g \in Handlers |->
               IF g = h
               THEN [IdleDep EXCEPT !.id = issued + 1, !.st = store,
                                    !.overlap = {dep[b].id : b \in busy}]
               ELSE IF g \in busy THEN [dep[g] EXCEPT !.overlap = @ \cup {issued + 1}]
               ELSE IdleDep]
  /\ pc' = [g \in Handlers |->
              IF g = h THEN "gen" ELSE IF InFlight(g) THEN pc[g] ELSE "idle"]
  /\ UNCHANGED <<now, current, staging, backups, stateFiles, faults>>
  /\ UNCHANGED <<apiVars, callVars>>

\* GEN: the staging directory is named after the second of the call; MkdirAll
\* accepts an existing directory and the files are written over what is there
GenerateBaseFiles(h) ==
  /\ pc[h] = "gen"
  /\ \E ioErr \in IOErr :
       /\ Fault(ioErr)
       /\ IF ioErr
          THEN /\ FailIn(h, "GEN", "generate")
               /\ UNCHANGED staging
          ELSE /\ staging' = [staging EXCEPT ![now] = Bundle(dep[h].id)]
               /\ pc' = [pc EXCEPT ![h] = "pull"]
               /\ dep' = [dep EXCEPT ![h].sts = now, ![h].phases = Append(@, "GEN")]
  /\ UNCHANGED <<now, current, backups, stateFiles, issued>>
  /\ UNCHANGED <<apiVars, callVars>>

\* PULL with every error taken for "No such service"
PullAnyError(h) ==
  /\ pc[h] = "pull"
  /\ \E out \in IF Cancelled(h) THEN {"error"} ELSE {"ok", "No such service", "error"} :
       /\ pc' = [pc EXCEPT ![h] = "backupState"]
       /\ dep' = [dep EXCEPT ![h].phases = Append(@, "PULL"), ![h].perr = (out = "error")]
  /\ UNCHANGED <<now, current, staging, backups, stateFiles, issued, faults>>
  /\ UNCHANGED <<apiVars, callVars>>

\* PULL: an error is fatal (perr) unless its text contains "No such service"
Pull(h) ==
  /\ pc[h] = "pull"
  /\ \E out \in IF Cancelled(h) THEN {"error"} ELSE {"ok", "No such service", "error"} :
       IF out = "error"
       THEN /\ pc' = [pc EXCEPT ![h] = "done"]
            /\ dep' = [dep EXCEPT ![h] =
                         Gone([@ EXCEPT !.phases = Append(@, "PULL"), !.perr = TRUE],
                              "docker pull")]
       ELSE /\ pc' = [pc EXCEPT ![h] = "backupState"]
            /\ dep' = [dep EXCEPT ![h].phases = Append(@, "PULL")]
  /\ UNCHANGED <<now, current, staging, backups, stateFiles, issued, faults>>
  /\ UNCHANGED <<apiVars, callVars>>

\* backupState with its error dropped by the caller
backupStateUnchecked(h) ==
  /\ pc[h] = "backupState"
  /\ \E ioErr \in IOErr :
       /\ Fault(ioErr)
       /\ stateFiles' = IF ioErr THEN stateFiles ELSE stateFiles \cup {now}
       /\ pc' = [pc EXCEPT ![h] = "backupConfig"]
       /\ dep' = [dep EXCEPT ![h].ts = now, ![h].i = 0, ![h].bkState = ~ioErr,
                             ![h].phases = Append(@, "BACKUP")]
  /\ UNCHANGED <<now, current, staging, backups, issued>>
  /\ UNCHANGED <<apiVars, callVars>>

\* BACKUP, first half: ts is read from the clock, then the state document is
\* copied to state-<ts>.json
backupState(h) ==
  /\ pc[h] = "backupState"
  /\ \E ioErr \in IOErr :
       /\ Fault(ioErr)
       /\ IF ioErr
          THEN /\ FailIn(h, "BACKUP", "backup state")
               /\ UNCHANGED stateFiles
          ELSE /\ stateFiles' = stateFiles \cup {now}
               /\ pc' = [pc EXCEPT ![h] = "backupConfig"]
               /\ dep' = [dep EXCEPT ![h].ts = now, ![h].i = 0, ![h].bkState = TRUE,
                                     ![h].phases = Append(@, "BACKUP")]
  /\ UNCHANGED <<now, current, staging, backups, issued>>
  /\ UNCHANGED <<apiVars, callVars>>

\* BACKUP, second half: nothing to do without current/, else copyDir of
\* current/ into backup-<ts>, one Walk callback per step
backupCurrentConfig(h) ==
  /\ pc[h] = "backupConfig"
  /\ IF dep[h].i = 0 /\ ~Exists(current)
     THEN /\ pc' = [pc EXCEPT ![h] = "up"]
          /\ dep' = [dep EXCEPT ![h].bkConfig = TRUE]
          /\ UNCHANGED <<backups, faults>>
     ELSE \E ioErr \in IOErr :
            LET r == copyDirStep(current, backups[dep[h].ts], dep[h].i, dep[h].buf, ioErr) IN
            /\ Fault(ioErr)
            /\ backups' = [backups EXCEPT ![dep[h].ts] = r.dst]
            /\ IF r.err THEN Fail(h, "backup config")
               ELSE IF dep[h].i = CopySteps
               THEN /\ pc' = [pc EXCEPT ![h] = "up"]
                    /\ dep' = [dep EXCEPT ![h].i = 0, ![h].buf = Missing, ![h].bkConfig = TRUE]
               ELSE /\ dep' = [dep EXCEPT ![h].i = @ + 1, ![h].buf = r.buf]
                    /\ UNCHANGED pc
  /\ UNCHANGED <<now, current, staging, stateFiles, issued>>
  /\ UNCHANGED <<apiVars, callVars>>

\* UP on the staging bundle; a failure is reported straight away
Up(h) ==
  /\ pc[h] = "up"
  /\ \E ok \in IF Cancelled(h) THEN {FALSE} ELSE BOOLEAN :
       IF ok
       THEN /\ pc' = [pc EXCEPT ![h] = "wait"]
            /\ dep' = [dep EXCEPT ![h].phases = Append(@, "UP")]
       ELSE FailIn(h, "UP", "docker up")
  /\ UNCHANGED <<now, current, staging, backups, stateFiles, issued, faults>>
  /\ UNCHANGED <<apiVars, callVars>>

\* WaitHealthy with its error dropped by the caller
WaitHealthyIgnored(h) ==
  /\ pc[h] = "wait"
  /\ \E healthy \in BOOLEAN :
       /\ pc' = [pc EXCEPT ![h] = "promote"]
       /\ dep' = [dep EXCEPT ![h].phases = Append(@, "WAIT"), ![h].i = 0,
                             ![h].health = IF healthy THEN "healthy" ELSE "failed"]
  /\ UNCHANGED <<now, current, staging, backups, stateFiles, issued, faults>>
  /\ UNCHANGED <<apiVars, callVars>>

\* WAIT: WaitHealthy returns nil, or a timeout / context error
WaitHealthy(h) ==
  /\ pc[h] = "wait"
  /\ \E healthy \in IF Cancelled(h) THEN {FALSE} ELSE BOOLEAN :
       /\ pc' = [pc EXCEPT ![h] = IF healthy THEN "promote" ELSE "rollback"]
       /\ dep' = [dep EXCEPT ![h].phases = Append(@, "WAIT"), ![h].i = 0,
                             ![h].health = IF healthy THEN "healthy" ELSE "failed",
                             ![h].herr = IF healthy THEN ""
                                         ELSE IF Cancelled(h) THEN "context canceled"
                                         ELSE "timeout waiting",
                             ![h].ctxErr = IF Cancelled(h) THEN @ \cup {"WaitHealthy"} ELSE @]
  /\ UNCHANGED <<now, current, staging, backups, stateFiles, issued, faults>>
  /\ UNCHANGED <<apiVars, callVars>>

\* maxBackups as handleDeploy and applyConfig hand it to pruneBackups, and
\* pruneBackups' own default
MaxKeep ==
  LET m == IF MaxBackupsSetting = 0 THEN DefaultMaxBackups ELSE MaxBackupsSetting
  IN IF m <= 0 THEN DefaultMaxBackups ELSE m

\* fmt.Sprintf("health check failed, rolled back: %v", err) and
\* fmt.Sprintf("health check failed: %v; rollback also failed: %v", err, rbErr),
\* as the texts the result contains; the second with only rbErr in it
RolledBackMessage(err) == {"health check failed, rolled back", err}
RollbackOnlyMessage(err, rbErr) == {"rollback failed", rbErr}
RollbackFailedMessage(err, rbErr) ==
  {"health check failed", err, "rollback also failed", rbErr}

\* http.Error in handleDeploy, or applyConfig's error inside
\* HandleWebhookDeploy's "deploy failed: %v"
Body(k, m) == IF k = "webhook" THEN {"deploy failed"} \cup m ELSE m

\* the handler this request is in, an undetermined one as long as the two
\* have done the same
KindOf(h) == IF dep[h].kind = "" THEN Kinds ELSE {dep[h].kind}

\* rollbackFromBackup returned rbErr ("" for nil) and the handler answers
RestoreReturns(h, d, rbErr) ==
  /\ pc' = [pc EXCEPT ![h] = "done"]
  /\ dep' = [dep EXCEPT ![h] =
               [Gone(d, IF rbErr = "" THEN "rolled back" ELSE "rollback failed")
                  EXCEPT !.msg = Body(d.kind, IF rbErr = "" THEN RolledBackMessage(d.herr)
                                              ELSE RollbackFailedMessage(d.herr, rbErr))]]

\* RESTORE: the backup of this deploy must exist; current/ is removed, the
\* backup is copied back file by file, then Up runs in current/
rollbackFromBackup(h) ==
  /\ \/ /\ pc[h] = "rollback"
        /\ IF ~Exists(backups[dep[h].ts])
           THEN /\ RestoreReturns(h, [dep[h] EXCEPT !.phases = Append(@, "RESTORE")],
                                  "backup not found")
                /\ UNCHANGED current
           ELSE /\ current' = NoDir
                /\ pc' = [pc EXCEPT ![h] = "rollbackCopy"]
                /\ dep' = [dep EXCEPT ![h].i = 0, ![h].phases = Append(@, "RESTORE")]
        /\ UNCHANGED faults
     \/ /\ pc[h] = "rollbackCopy"
        /\ \E ioErr \in IOErr :
             LET r == copyDirStep(backups[dep[h].ts], current, dep[h].i, dep[h].buf, ioErr) IN
             /\ Fault(ioErr)
             /\ current' = r.dst
             /\ IF r.err THEN RestoreReturns(h, dep[h], "restore backup")
                ELSE IF dep[h].i = CopySteps
                THEN /\ pc' = [pc EXCEPT ![h] = "rollbackUp"]
                     /\ dep' = [dep EXCEPT ![h].i = 0, ![h].buf = Missing]
                ELSE /\ dep' = [dep EXCEPT ![h].i = @ + 1, ![h].buf = r.buf]
                     /\ UNCHANGED pc
     \/ /\ pc[h] = "rollbackUp"
        /\ \E ok \in IF Cancelled(h) THEN {FALSE} ELSE BOOLEAN :
             RestoreReturns(h, [dep[h] EXCEPT !.ctxErr =
                                   IF Cancelled(h) THEN @ \cup {"Up"} ELSE @],
                            IF ok THEN "" ELSE "docker up after rollback")
        /\ UNCHANGED <<current, faults>>
  /\ UNCHANGED <<now, staging, backups, stateFiles, issued>>
  /\ UNCHANGED <<apiVars, callVars>>

\* PROMOTE: with a current/ present, backup-<ts> is removed and current/ is
\* renamed to it (moved); then the staging directory is renamed to current/
promote(h) ==
  /\ \/ /\ pc[h] = "promote"
        /\ \E ioErr \in IOErr :
             /\ Fault(ioErr)
             /\ IF ioErr
                THEN /\ FailIn(h, "PROMOTE", "promote staging")
                     /\ UNCHANGED backups
                ELSE /\ dep' = [dep EXCEPT ![h].phases = Append(@, "PROMOTE")]
                     /\ IF Exists(current)
                        THEN /\ backups' = [backups EXCEPT ![dep[h].ts] = NoDir]
                             /\ pc' = [pc EXCEPT ![h] = "promoteMove"]
                        ELSE /\ pc' = [pc EXCEPT ![h] = "promoteRename"]
                             /\ UNCHANGED backups
        /\ UNCHANGED <<current, staging>>
     \/ /\ pc[h] = "promoteMove"
        /\ \E ioErr \in IOErr :
             /\ Fault(ioErr)
             /\ IF ~ioErr /\ RenameOk(current, backups[dep[h].ts])
                THEN /\ backups' = [backups EXCEPT ![dep[h].ts] = current]
                     /\ current' = NoDir
                     /\ pc' = [pc EXCEPT ![h] = "promoteRename"]
                     /\ dep' = [dep EXCEPT ![h].moved = TRUE]
                ELSE /\ Fail(h, "promote staging")
                     /\ UNCHANGED <<current, backups>>
        /\ UNCHANGED staging
     \/ /\ pc[h] = "promoteRename"
        /\ \E ioErr \in IOErr, k \in KindOf(h) :
             /\ Fault(ioErr)
             /\ IF ~ioErr /\ RenameOk(staging[dep[h].sts], current)
                THEN /\ current' = staging[dep[h].sts]
                     /\ staging' = [staging EXCEPT ![dep[h].sts] = NoDir]
                     /\ pc' = [pc EXCEPT ![h] = IF k = "api" THEN "save" ELSE "prune"]
                     /\ dep' = [dep EXCEPT ![h].promoted = TRUE, ![h].kind = k]
                ELSE /\ Fail(h, "promote staging")
                     /\ UNCHANGED <<current, staging>>
        /\ UNCHANGED backups
  /\ UNCHANGED <<now, stateFiles, issued>>
  /\ UNCHANGED <<apiVars, callVars>>

\* Store.Save of the snapshot taken when the request came in, with the
\* last_deploy stamps: handleDeploy saves before PRUNE, HandleWebhookDeploy
\* after applyConfig (and so after PRUNE) has returned.  handleDeploy stamps
\* every service when req.Service is empty and else the one of that name,
\* HandleWebhookDeploy the service of the URL.  Save returns ctx.Err() when
\* the request's context is cancelled.
Stamped(st, names, t) ==
  [st EXCEPT !.services =
     [n \in DOMAIN @ |-> IF @[n].name \in names
                          THEN [@[n] EXCEPT !.lastDeploy = t] ELSE @[n]]]
StampNames(d) ==
  {x \in ServiceNames :
      (d.kind = "api" /\ d.service = <<"", 0>>) \/ EqualFold(x, d.service)}
Save(h) ==
  /\ pc[h] = "save"
  /\ \E ioErr \in IOErr :
       /\ Fault(ioErr)
       /\ IF ioErr \/ Cancelled(h) \/ ~Validate(dep[h].st)
          THEN /\ pc' = [pc EXCEPT ![h] = "done"]
               /\ dep' = [dep EXCEPT ![h] =
                            Gone([@ EXCEPT !.ctxErr =
                                     IF Cancelled(h) /\ ~ioErr THEN @ \cup {"Save"} ELSE @],
                                 "save state")]
               /\ UNCHANGED store
          ELSE /\ store' = Stamped(dep[h].st, StampNames(dep[h]), dep[h].id)
               /\ IF dep[h].kind = "api"
                  THEN pc' = [pc EXCEPT ![h] = "prune"] /\ UNCHANGED dep
                  ELSE Fail(h, "deployed")
  /\ UNCHANGED <<now, current, staging, backups, stateFiles, issued>>
  /\ UNCHANGED <<req, nreq, callVars>>

\* PRUNE: of the backup-* directories and of the state-*.json files, all but
\* the MaxKeep greatest names are removed
pruneBackups(h) ==
  /\ pc[h] = "prune"
  /\ LET dirs == {t \in Clock : Exists(backups[t])} IN
     backups' = [t \in Clock |->
                   IF t \in dirs \ Newest(dirs, MaxKeep) THEN NoDir ELSE backups[t]]
  /\ stateFiles' = Newest(stateFiles, MaxKeep)
  /\ IF dep[h].kind = "api"
     THEN FailIn(h, "PRUNE", "deployed")
     ELSE /\ pc' = [pc EXCEPT ![h] = "save"]
          /\ dep' = [dep EXCEPT ![h].phases = Append(@, "PRUNE")]
  /\ UNCHANGED <<now, current, staging, issued, faults>>
  /\ UNCHANGED <<apiVars, callVars>>

Next ==
  \/ Tick
  \/ \E h \in Handlers :
       \/ StartDeploy(h)
       \/ GenerateBaseFiles(h)
       \/ Pull(h)
       \/ backupState(h)
       \/ backupCurrentConfig(h)
       \/ Up(h)
       \/ WaitHealthy(h)
       \/ rollbackFromBackup(h)
       \/ promote(h)
       \/ Save(h)
       \/ pruneBackups(h)

Spec == Init /\ [][Next]_vars

(* ------------------------------------------------------------------ *)
(* One deploy request at a time, with its body and its context          *)
(* ------------------------------------------------------------------ *)

NoName == <<"", 0>>

\* the names a deploy request may spell, and the goroutine that serves it
RequestNames == {<<"app", 0>>, <<"web", 0>>}
Solo == "h1"

\* the state document the requests find: services "App" and "web"
TwoServices ==
  [NewState EXCEPT !.services =
     << [name |-> <<"app", 1>>, hosts |-> {<<"a.io", 0>>}, enabled |-> TRUE,
         lastDeploy |-> 0],
        [name |-> <<"web", 0>>, hosts |-> {<<"b.io", 0>>}, enabled |-> TRUE,
         lastDeploy |-> 0] >>]

InitReq == IdleOver(TwoServices) /\ pure = NoCall /\ NoStore /\ NoRollback /\ NoDaemon

sanitizeName(name) == ToLower(name)

\* handleDeploy's targets: the non-empty names of req.Services when that list
\* has entries, else req.Service when it is not empty, else none (all services)
Targets(service, services) ==
  IF services # {} THEN {sanitizeName(x) : x \in services \ {NoName}}
  ELSE IF service # NoName THEN {sanitizeName(service)}
  ELSE {}

\* POST /deploy with a body, or POST /webhook/deploy/{name} for a service
\* that is stored and enabled: the state is loaded and the targets are set
Request(h) ==
  /\ pc[h] \in {"idle", "done"}
  /\ issued < MaxDeploys
  /\ issued' = issued + 1
  /\ \E k \in Kinds, service \in RequestNames \cup {NoName},
        services \in SUBSET (RequestNames \cup {NoName}) :
       LET found == {n \in DOMAIN store.services :
                        EqualFold(store.services[n].name, service)}
           serviceIdx == CHOOSE n \in found : \A m \in found : n <= m
       IN /\ k = "webhook" =>
               /\ services = {} /\ found # {}
               /\ store.services[serviceIdx].enabled
          /\ dep' = [dep EXCEPT ![h] =
                       [IdleDep EXCEPT !.id = issued + 1, !.st = store, !.cur0 = current,
                          !.kind = k, !.service = service, !.services = services,
                          !.targets =
                             IF k = "api" THEN Targets(service, services)
                             ELSE {sanitizeName(store.services[serviceIdx].name)}]]
  /\ pc' = [pc EXCEPT ![h] = "gen"]
  /\ UNCHANGED <<now, current, staging, backups, stateFiles, faults>>
  /\ UNCHANGED <<apiVars, callVars>>

\* the client disconnects: the request's context is cancelled
Cancel(h) ==
  /\ InFlight(h) /\ ~Cancelled(h)
  /\ dep' = [dep EXCEPT ![h].ctx = "canceled"]
  /\ UNCHANGED <<now, current, staging, backups, stateFiles, pc, issued, faults>>
  /\ UNCHANGED <<apiVars, callVars>>

NextReq ==
  \/ Tick
  \/ Request(Solo)
  \/ Cancel(Solo)
  \/ GenerateBaseFiles(Solo)
  \/ Pull(Solo)
  \/ backupState(Solo)
  \/ backupCurrentConfig(Solo)
  \/ Up(Solo)
  \/ WaitHealthy(Solo)
  \/ rollbackFromBackup(Solo)
  \/ promote(Solo)
  \/ Save(Solo)
  \/ pruneBackups(Solo)

SpecReq == InitReq /\ [][NextReq]_vars

(* ------------------------------------------------------------------ *)
(* The state handlers: POST /services, POST /tokens, webhook deploys   *)
(* ------------------------------------------------------------------ *)

\* the first free goroutine takes the next request
Accept(r) ==
  /\ req[r].pc \in {"idle", "done"}
  /\ \A o \in Reqs : o < r => req[o].pc \notin {"idle", "done"}
  /\ nreq < MaxRequests
  /\ nreq' = nreq + 1

\* http.Error / writeJSON: the request ends with this status and its locals
\* are gone; what it asked for and what it did stay on record
Reply(q, code) ==
  [IdleReq EXCEPT !.id = q.id, !.op = q.op, !.pc = "done", !.status = code,
                  !.name = q.name,
                  !.image = q.image, !.hosts = q.hosts, !.hdr = q.hdr,
                  !.timeout = q.timeout, !.targets = q.targets,
                  !.tid = q.tid, !.body = q.body,
                  !.enabled = q.enabled, !.cf = q.cf, !.dns = q.dns,
                  !.seen = q.seen, !.saves = q.saves,
                  !.loaded = q.loaded, !.applied = q.applied]

\* the loop with its comparison of names left out
TakenByHostname(services, svc) ==
  \E n \in DOMAIN services :
     \E existingHost \in services[n].hosts, newHost \in svc.hosts :
       EqualFold(existingHost, newHost)

\* the uniqueness loop of handleAddService over the loaded services
Taken(services, svc) ==
  \E n \in DOMAIN services :
     \/ EqualFold(services[n].name, svc.name)
     \/ \E existingHost \in services[n].hosts, newHost \in svc.hosts :
          EqualFold(existingHost, newHost)

\* POST /services.  First the body is decoded and the state loaded; then the
\* fields are validated and the defaults set: enabled is what the request
\* said, true when it said nothing, and then true when it is false; with
\* "cloudflare" set and hostnames given, a CNAME is ensured for each hostname;
\* then the name and the hostnames are compared with the loaded services, and
\* the loaded state is saved with the service appended.  Enableds and
\* Cloudflares are the values of the two fields that the requests carry.
addService(r, Enableds, Cloudflares) ==
  /\ \/ /\ Accept(r)
        /\ \E name \in ServiceNames, hosts \in HostSets, image \in Images,
              enabled \in Enableds, cf \in Cloudflares :
             LET q == [IdleReq EXCEPT !.id = nreq + 1, !.op = "add", !.name = name,
                                      !.hosts = hosts, !.image = image,
                                      !.enabled = enabled, !.cf = cf] IN
             IF image = ""
             THEN req' = [req EXCEPT ![r] = Reply(q, 400)] /\ UNCHANGED faults
             ELSE \E ioErr \in IOErr :
                    /\ Fault(ioErr)
                    /\ req' = [req EXCEPT ![r] =
                                 IF ioErr THEN Reply(q, 500)
                                 ELSE [q EXCEPT !.pc = "addCheck", !.st = store,
                                                !.seen = store, !.loaded = TRUE]]
        /\ UNCHANGED store
     \/ /\ req[r].pc = "addCheck"
        /\ UNCHANGED nreq
        /\ LET q == req[r]
               payloadEnabled == IF q.enabled = "false" THEN FALSE ELSE TRUE
               svc == [name |-> q.name, hosts |-> q.hosts,
                       enabled |-> IF payloadEnabled = FALSE THEN TRUE ELSE payloadEnabled,
                       lastDeploy |-> 0]
           IN IF ~ImageName(q.image)
              THEN req' = [req EXCEPT ![r] = Reply(q, 400)] /\ UNCHANGED <<store, faults>>
              ELSE IF q.cf /\ q.hosts # {} /\ ~q.dnsDone
              THEN /\ IF ~q.st.cloudflare
                      THEN req' = [req EXCEPT ![r] = Reply(q, 400)]
                      ELSE \E done \in SUBSET q.hosts :
                             req' = [req EXCEPT ![r] =
                                       IF done = q.hosts
                                       THEN [q EXCEPT !.dns = done, !.dnsDone = TRUE]
                                       ELSE Reply([q EXCEPT !.dns = done], 500)]
                   /\ UNCHANGED <<store, faults>>
              ELSE IF Taken(q.st.services, svc)
              THEN req' = [req EXCEPT ![r] = Reply(q, 409)] /\ UNCHANGED <<store, faults>>
              ELSE \E ioErr \in IOErr :
                     LET st == [q.st EXCEPT !.services = Append(@, svc)] IN
                     /\ Fault(ioErr)
                     /\ IF ioErr \/ ~Validate(st)
                        THEN /\ req' = [req EXCEPT ![r] = Reply([q EXCEPT !.saves = @ + 1], 500)]
                             /\ UNCHANGED store
                        ELSE /\ store' = st
                             /\ req' = [req EXCEPT ![r] =
                                  [Reply([q EXCEPT !.saves = @ + 1], 200) EXCEPT !.raced =
                                     {req[o].id : o \in {x \in Reqs \ {r} :
                                                          req[x].pc = "addCheck"}}]]
  /\ UNCHANGED <<engineVars, callVars>>

\* POST /services of a client that sends neither "enabled" nor "cloudflare"
handleAddService(r) == addService(r, {""}, {FALSE})

\* POST /services with any body
handleAddServiceBody(r) == addService(r, {"", "true", "false"}, BOOLEAN)

\* POST /tokens: the state is loaded, then saved with the new token's hash
\* appended; GenerateToken draws a fresh secret for every request
handleCreateToken(r) ==
  /\ \/ /\ Accept(r)
        /\ \E ioErr \in IOErr :
             LET q == [IdleReq EXCEPT !.id = nreq + 1, !.op = "token"] IN
             /\ Fault(ioErr)
             /\ req' = [req EXCEPT ![r] =
                          IF ioErr THEN Reply(q, 500)
                          ELSE [q EXCEPT !.pc = "tokenSave", !.st = store,
                                         !.loaded = TRUE]]
        /\ UNCHANGED store
     \/ /\ req[r].pc = "tokenSave"
        /\ UNCHANGED nreq
        /\ \E ioErr \in IOErr :
             LET q == req[r]
                 plaintext == TokenText(q.id)
                 token == [id |-> q.id, hash |-> HashToken(plaintext), lastUsed |-> 0]
                 st == [q.st EXCEPT !.tokens = Append(@, token)]
             IN /\ Fault(ioErr)
                /\ req' = [req EXCEPT ![r] =
                     IF ioErr \/ ~Validate(st) THEN Reply([q EXCEPT !.saves = @ + 1], 500)
                     ELSE Reply([q EXCEPT !.saves = @ + 1,
                                          !.body = {Text("id", token.id),
                                                    StrToken(plaintext)}], 200)]
                /\ store' = IF ioErr \/ ~Validate(st) THEN store ELSE st
  /\ UNCHANGED <<engineVars, callVars>>

\* an entry of GET /tokens with the hash in it
WholeToken(t) == {Text("id", t.id), Text("last_used", t.lastUsed), StrHash(t.hash)}

\* tokenResponse: ID, Name, CreatedAt, LastUsed of a stored token
tokenResponse(t) == {Text("id", t.id), Text("last_used", t.lastUsed)}

\* GET /tokens: the state is loaded and every token answered as a tokenResponse
handleListTokens(r) ==
  /\ Accept(r)
  /\ \E ioErr \in IOErr :
       LET q == [IdleReq EXCEPT !.id = nreq + 1, !.op = "list", !.loaded = ~ioErr,
                                !.seen = IF ioErr THEN NewState ELSE store] IN
       /\ Fault(ioErr)
       /\ req' = [req EXCEPT ![r] =
                    IF ioErr THEN Reply(q, 500)
                    ELSE Reply([q EXCEPT !.body =
                                  UNION {tokenResponse(store.tokens[n]) :
                                           n \in DOMAIN store.tokens}], 200)]
  /\ UNCHANGED <<store, engineVars, callVars>>

\* DELETE /tokens/{id}: the state is loaded, the token of that ID taken out
\* of the list (404 when there is none), the state saved
handleRevokeToken(r) ==
  /\ \/ /\ Accept(r)
        /\ \E id \in TokenIDs, ioErr \in IOErr :
             LET q == [IdleReq EXCEPT !.id = nreq + 1, !.op = "revoke", !.tid = id]
                 Kept(t) == t.id # id
                 newTokens == SelectSeq(store.tokens, Kept)
             IN /\ Fault(ioErr)
                /\ req' = [req EXCEPT ![r] =
                     IF ioErr THEN Reply(q, 500)
                     ELSE IF newTokens = store.tokens
                     THEN Reply([q EXCEPT !.loaded = TRUE, !.seen = store], 404)
                     ELSE [q EXCEPT !.pc = "revokeSave", !.loaded = TRUE, !.seen = store,
                                    !.st = [store EXCEPT !.tokens = newTokens]]]
        /\ UNCHANGED store
     \/ /\ req[r].pc = "revokeSave"
        /\ UNCHANGED nreq
        /\ \E ioErr \in IOErr :
             LET q == req[r] IN
             /\ Fault(ioErr)
             /\ req' = [req EXCEPT ![r] =
                  IF ioErr \/ ~Validate(q.st) THEN Reply([q EXCEPT !.saves = @ + 1], 500)
                  ELSE Reply([q EXCEPT !.saves = @ + 1, !.body = {Text("id", q.tid)}], 200)]
             /\ store' = IF ioErr \/ ~Validate(q.st) THEN store ELSE q.st
  /\ UNCHANGED <<engineVars, callVars>>

\* requireWebhookToken: the state is loaded and the Authorization header is
\* held against the stored hashes; on a match last_used is stamped on the
\* loaded state, which is saved (the result of that Save is dropped)
requireWebhookToken(r) ==
  /\ \/ /\ req[r].pc = "auth"
        /\ \E ioErr \in IOErr :
             LET q == req[r]
                 tokens == store.tokens
                 token == q.hdr.token
                 matches == {n \in DOMAIN tokens : VerifyToken(token, tokens[n].hash)}
                 matched == CHOOSE n \in matches : \A m \in matches : n <= m
                 l == [q EXCEPT !.loaded = TRUE, !.seen = store]
             IN /\ Fault(ioErr)
                /\ req' = [req EXCEPT ![r] =
                     IF ioErr THEN Reply(q, 500)
                     ELSE IF Len(tokens) = 0 THEN Reply(l, 401)
                     ELSE IF q.hdr.scheme = "" THEN Reply(l, 401)
                     ELSE IF q.hdr.scheme # "Bearer" THEN Reply(l, 401)
                     ELSE IF ~IsValidTokenFormat(token) THEN Reply(l, 401)
                     ELSE IF matches = {} THEN Reply(l, 401)
                     ELSE [l EXCEPT !.pc = "touch",
                                    !.st = [store EXCEPT !.tokens[matched].lastUsed = q.id]]]
        /\ UNCHANGED store
     \/ /\ req[r].pc = "touch"
        /\ \E ioErr \in IOErr :
             /\ Fault(ioErr)
             /\ store' = IF ioErr \/ ~Validate(req[r].st) THEN store ELSE req[r].st
             /\ req' = [req EXCEPT ![r].pc = "find", ![r].saves = @ + 1]
  /\ UNCHANGED <<nreq, engineVars, callVars>>

\* a stored service of any kind
AnyService(svc) == TRUE

\* HandleWebhookDeploy deploys enabled services only
Deployable(svc) == svc.enabled

\* POST /webhook/deploy/{name}: the path is parsed, the token checked, the
\* timeout parsed, the state loaded and the service looked up; applyConfig is
\* the engine run (file system and compose); then last_deploy is saved
HandleWebhookDeploy(r) ==
  /\ \/ /\ Accept(r)
        /\ \E name \in ServiceNames \cup {<<"", 0>>}, hdr \in Headers, timeout \in Timeouts :
             LET q == [IdleReq EXCEPT !.id = nreq + 1, !.op = "webhook", !.name = name,
                                      !.hdr = hdr, !.timeout = timeout] IN
             req' = [req EXCEPT ![r] =
                       IF name = <<"", 0>> THEN Reply(q, 400) ELSE [q EXCEPT !.pc = "auth"]]
        /\ UNCHANGED <<store, faults>>
     \/ /\ req[r].pc = "find"
        /\ UNCHANGED <<store, nreq>>
        /\ LET q == req[r] IN
           IF q.timeout = "0"
           THEN req' = [req EXCEPT ![r] = Reply(q, 400)] /\ UNCHANGED faults
           ELSE \E ioErr \in IOErr :
                  LET found == {n \in DOMAIN store.services :
                                   EqualFold(store.services[n].name, q.name)}
                      serviceIdx == CHOOSE n \in found : \A m \in found : n <= m
                  IN /\ Fault(ioErr)
                     /\ req' = [req EXCEPT ![r] =
                          IF ioErr THEN Reply(q, 500)
                          ELSE IF found = {} THEN Reply(q, 404)
                          ELSE IF ~Deployable(store.services[serviceIdx]) THEN Reply(q, 400)
                          ELSE [q EXCEPT !.pc = "apply", !.st = store, !.idx = serviceIdx,
                                         !.targets =
                                            {sanitizeName(store.services[serviceIdx].name)}]]
     \/ /\ req[r].pc = "apply"
        /\ \E ok \in BOOLEAN :
             req' = [req EXCEPT ![r] =
                       IF ok THEN [req[r] EXCEPT !.pc = "stamp", !.applied = TRUE]
                       ELSE Reply([req[r] EXCEPT !.applied = TRUE], 500)]
        /\ UNCHANGED <<store, nreq, faults>>
     \/ /\ req[r].pc = "stamp"
        /\ UNCHANGED nreq
        /\ \E ioErr \in IOErr :
             LET q == req[r]
                 st == [q.st EXCEPT !.services[q.idx].lastDeploy = q.id]
             IN /\ Fault(ioErr)
                /\ req' = [req EXCEPT ![r] =
                     Reply([q EXCEPT !.saves = @ + 1],
                           IF ioErr \/ ~Validate(st) THEN 500 ELSE 200)]
                /\ store' = IF ioErr \/ ~Validate(st) THEN store ELSE st
  /\ UNCHANGED <<engineVars, callVars>>

NextApi ==
  \E r \in Reqs :
     \/ handleAddService(r)
     \/ handleCreateToken(r)
     \/ requireWebhookToken(r)
     \/ HandleWebhookDeploy(r)

SpecApi == Init /\ [][NextApi]_vars

(* ------------------------------------------------------------------ *)
(* Webhook deploys over a state with a token and one service            *)
(* ------------------------------------------------------------------ *)

\* the state document the webhook requests find: one API token, and the
\* service "App", enabled or disabled
HookState(enabled) ==
  [NewState EXCEPT
     !.services = << [name |-> <<"app", 1>>, hosts |-> {<<"a.io", 0>>},
                      enabled |-> enabled, lastDeploy |-> 0] >>,
     !.tokens = << [id |-> 1, hash |-> HashToken(TokenText(1)), lastUsed |-> 0] >>]

InitHook ==
  /\ \E enabled \in BOOLEAN : IdleOver(HookState(enabled))
  /\ pure = NoCall /\ NoStore /\ NoRollback /\ NoDaemon

NextHook ==
  \E r \in Reqs :
     \/ requireWebhookToken(r)
     \/ HandleWebhookDeploy(r)

SpecHook == InitHook /\ [][NextHook]_vars

(* ------------------------------------------------------------------ *)
(* The token endpoints                                                 *)
(* ------------------------------------------------------------------ *)

NextTokens ==
  \E r \in Reqs :
     \/ handleCreateToken(r)
     \/ handleListTokens(r)
     \/ handleRevokeToken(r)
     \/ requireWebhookToken(r)
     \/ HandleWebhookDeploy(r)

SpecTokens == Init /\ [][NextTokens]_vars

(* ------------------------------------------------------------------ *)
(* Revocation beside webhook deploys, over a state with one token       *)
(* ------------------------------------------------------------------ *)

InitRevoke == IdleOver(HookState(TRUE)) /\ pure = NoCall /\ NoStore /\ NoRollback /\ NoDaemon

NextRevoke ==
  \E r \in Reqs :
     \/ handleRevokeToken(r)
     \/ requireWebhookToken(r)
     \/ HandleWebhookDeploy(r)

SpecRevoke == InitRevoke /\ [][NextRevoke]_vars

(* ------------------------------------------------------------------ *)
(* Services added while webhook deploys run, over the same state        *)
(* ------------------------------------------------------------------ *)

InitDuring == IdleOver(HookState(TRUE)) /\ pure = NoCall /\ NoStore /\ NoRollback /\ NoDaemon

NextDuring ==
  \E r \in Reqs :
     \/ handleAddService(r)
     \/ requireWebhookToken(r)
     \/ HandleWebhookDeploy(r)

SpecDuring == InitDuring /\ [][NextDuring]_vars

(* ------------------------------------------------------------------ *)
(* POST /services with "enabled" and "cloudflare", tunnel initialised   *)
(* ------------------------------------------------------------------ *)

InitAdd ==
  /\ IdleOver([NewState EXCEPT !.cloudflare = TRUE])
  /\ pure = NoCall /\ NoStore /\ NoRollback /\ NoDaemon

NextAdd == \E r \in Reqs : handleAddServiceBody(r)

SpecAdd == InitAdd /\ [][NextAdd]_vars

(* ------------------------------------------------------------------ *)
(* pruneBackups called on its own, as TestPruneBackups does             *)
(* ------------------------------------------------------------------ *)

Stamps == 1..MaxStamp

\* what is always in the directory beside the backups of deploys: a regular
\* file named backup-*, the pre-rollback copy handleRollback leaves, a state-*
\* file that is no .json, and a file of neither prefix
Strays ==
  { Entry("backup-", 0, "", FALSE), Entry("backup-", MaxStamp, "-current", TRUE),
    Entry("state-", 0, ".txt", FALSE), Entry("notes", 0, "", FALSE) }

\* the listings pruneBackups is called on: any set of backup-<ts> directories,
\* the state-<ts>.json files of the first m timestamps, and the strays
Listings ==
  { {Entry("backup-", t, "", TRUE) : t \in D}
      \cup {Entry("state-", t, ".json", FALSE) : t \in 1..m} \cup Strays :
    D \in SUBSET Stamps, m \in 0..MaxStamp }

InitPrune ==
  /\ Idle /\ NoStore /\ NoRollback /\ NoDaemon
  /\ pure \in { [f |-> "pruneBackups", arg |-> [entries |-> l, setting |-> k],
                 ret |-> {}, done |-> FALSE] : l \in Listings, k \in -1..MaxKeepArg }

\* maxBackups := st.Settings.MaxBackups; if 0 then 10; h.pruneBackups(maxBackups)
PruneCall ==
  /\ pure.f = "pruneBackups" /\ ~pure.done
  /\ pure' = [pure EXCEPT !.ret = Pruned(pure.arg.entries, CallerKeep(pure.arg.setting)),
                          !.done = TRUE]
  /\ UNCHANGED <<engineVars, faults, apiVars, storeVars, rollbackVars, daemonVars>>

NextPrune == PruneCall

SpecPrune == InitPrune /\ [][NextPrune]_vars

(* ------------------------------------------------------------------ *)
(* A Store called on its own, as the tests of internal/state do        *)
(* ------------------------------------------------------------------ *)

Impls == {"sqlite", "file", "memory"}

\* A State as the stores see it: the settings that have a column, the
\* Cloudflare API token and the remote-access settings, the API tokens, and
\* the services with their ID.
NewDoc ==
  [project |-> "tinyserve", port |-> 7070, cf |-> "", remote |-> FALSE,
   tokens |-> << >>, services |-> << >>]
Svc(id, name, image) == [id |-> id, name |-> name, image |-> image]
ApiToken == [id |-> "t1", hash |-> "h1", lastUsed |-> "never"]

\* The States handed to Save: one service; that service changed, a second one,
\* a Cloudflare token, remote access and an API token; the first service gone;
\* an empty project name; and a second service carrying the ID of the first,
\* as POST /services appends it when the body repeats an ID.
OneService == [NewDoc EXCEPT !.port = 7071, !.services = <<Svc("app-1", "app", "nginx")>>]
WithSecrets ==
  [NewDoc EXCEPT !.port = 7072, !.cf = "cf-token", !.remote = TRUE,
                 !.tokens = <<ApiToken>>,
                 !.services = <<Svc("app-1", "app", "nginx:2"), Svc("web-1", "web", "nginx")>>]
OtherService == [NewDoc EXCEPT !.port = 7073, !.services = <<Svc("web-1", "web", "nginx")>>]
NoProject == [OneService EXCEPT !.project = ""]
SharedID ==
  [NewDoc EXCEPT !.port = 7071,
                 !.services = <<Svc("app-1", "app", "nginx"), Svc("app-1", "api", "nginx")>>]
Docs == {OneService, WithSecrets, OtherService, NoProject, SharedID}

\* sqlite's INSERT INTO services ... ON CONFLICT(id) DO UPDATE, under the
\* UNIQUE index on name: the rows afterwards, or Conflict
Conflict == <<Svc("", "", "UNIQUE constraint failed")>>
IDs(svcs) == {svcs[n].id : n \in DOMAIN svcs}
Upsert(rows, svc) ==
  LET at == {n \in DOMAIN rows : rows[n].id = svc.id}
      clash == {n \in DOMAIN rows : rows[n].name = svc.name /\ rows[n].id # svc.id}
  IN  IF clash # {} THEN Conflict
      ELSE IF at # {} THEN [n \in DOMAIN rows |-> IF n \in at THEN svc ELSE rows[n]]
      ELSE Append(rows, svc)
RECURSIVE UpsertAll(_, _)
UpsertAll(rows, svcs) ==
  IF rows = Conflict \/ svcs = << >> THEN rows
  ELSE UpsertAll(Upsert(rows, Head(svcs)), Tail(svcs))

\* DELETE FROM services WHERE id = ?, for every stored id the State lacks
DeleteMissing(rows, svcs) ==
  LET Kept(r) == r.id \in IDs(svcs) IN SelectSeq(rows, Kept)

\* what each store holds before its first Save
EmptyDisk(i) ==
  CASE i = "sqlite" -> [settings |-> None, rows |-> << >>, tx |-> None]
    [] i = "file"   -> [file |-> None, tmp |-> None]
    [] OTHER        -> [state |-> NewDoc]

\* SQLiteStore.Load's first query: the settings row, no row meaning NewState
Settings(d) == [project |-> d.project, port |-> d.port]
FromSettings(row) == [NewDoc EXCEPT !.project = row.project, !.port = row.port]

\* what Load returns from a store nobody is writing to
LoadOf(i, d) ==
  CASE i = "sqlite" -> IF d.settings = None THEN NewDoc
                       ELSE [FromSettings(d.settings) EXCEPT !.services = d.rows]
    [] i = "file"   -> IF d.file = None THEN NewDoc ELSE d.file
    [] OTHER        -> d.state

\* sync.RWMutex
LockAmongReaders(m) == m.w = 0
CanLock(m) == m.w = 0 /\ m.r = {}
CanRLock(m) == m.w = 0
Unlocked(c) == [w |-> 0, r |-> mu.r \ {c}]

InitStore ==
  /\ Idle /\ pure = NoCall /\ NoRollback /\ NoDaemon
  /\ impl \in Impls
  /\ disk = EmptyDisk(impl)
  /\ mu = [w |-> 0, r |-> {}]
  /\ cl = [c \in Clients |-> IdleClient]
  /\ nops = 0
  /\ last = None

Returned(c, ret, err, wrote) ==
  [cl[c] EXCEPT !.pc = "done", !.ret = ret, !.err = err, !.wrote = wrote]

\* a Save has changed what the store holds: the goroutines inside Load have
\* lived through one more stored State
Committed(c, d) ==
  [k \in Clients |->
     IF k = c THEN Returned(c, None, "", TRUE)
     ELSE IF cl[k].op = "Load" /\ cl[k].pc \in {"settings", "services"}
          THEN [cl[k] EXCEPT !.during = @ \cup {LoadOf(impl, d)}]
          ELSE cl[k]]

\* a goroutine calls Load or Save
StoreCall(c) ==
  /\ cl[c].pc \in {"idle", "done"}
  /\ nops < MaxStoreOps
  /\ nops' = nops + 1
  /\ \/ cl' = [cl EXCEPT ![c] = [IdleClient EXCEPT !.op = "Load", !.pc = "rlock"]]
     \/ \E s \in Docs :
          cl' = [cl EXCEPT ![c] =
                   IF impl = "sqlite" /\ ~Validate(s)
                   THEN [IdleClient EXCEPT !.op = "Save", !.arg = s, !.pc = "done",
                                           !.err = "validation failed"]
                   ELSE [IdleClient EXCEPT !.op = "Save", !.arg = s, !.pc = "lock"]]
  /\ UNCHANGED <<impl, disk, mu, last, faults>>

\* Load: RLock, then the settings, then (sqlite) the services
StoreLoad(c) ==
  /\ cl[c].op = "Load"
  /\ \/ /\ cl[c].pc = "rlock"
        /\ CanRLock(mu)
        /\ mu' = [mu EXCEPT !.r = @ \cup {c}]
        /\ cl' = [cl EXCEPT ![c].pc = "settings", ![c].during = {LoadOf(impl, disk)}]
        /\ UNCHANGED <<disk, faults>>
     \/ /\ cl[c].pc = "settings"
        /\ \E ioErr \in IF impl = "memory" THEN {FALSE} ELSE IOErr :
             /\ Fault(ioErr)
             /\ IF ioErr
                THEN /\ cl' = [cl EXCEPT ![c] = Returned(c, None, "load", FALSE)]
                     /\ mu' = Unlocked(c)
                ELSE IF impl = "sqlite" /\ disk.settings # None
                THEN /\ cl' = [cl EXCEPT ![c].pc = "services",
                                         ![c].ret = FromSettings(disk.settings)]
                     /\ mu' = mu
                ELSE /\ cl' = [cl EXCEPT ![c] = Returned(c, LoadOf(impl, disk), "", FALSE)]
                     /\ mu' = Unlocked(c)
        /\ UNCHANGED disk
     \/ /\ cl[c].pc = "services"
        /\ \E ioErr \in IOErr :
             /\ Fault(ioErr)
             /\ cl' = [cl EXCEPT ![c] =
                         IF ioErr THEN Returned(c, None, "query services", FALSE)
                         ELSE Returned(c, [cl[c].ret EXCEPT !.services = disk.rows], "", FALSE)]
        /\ mu' = Unlocked(c)
        /\ UNCHANGED disk
  /\ UNCHANGED <<impl, nops, last>>

\* SQLiteStore.Save after its Validate: Lock, BeginTx and the settings
\* upsert, the deletes and the service upserts, Commit; any error rolls back
SaveSQLite(c) ==
  /\ impl = "sqlite"
  /\ \/ /\ cl[c].pc = "lock"
        /\ CanLock(mu)
        /\ mu' = [mu EXCEPT !.w = c]
        /\ cl' = [cl EXCEPT ![c].pc = "settings"]
        /\ UNCHANGED <<disk, last, faults>>
     \/ /\ cl[c].pc = "settings"
        /\ \E ioErr \in IOErr :
             /\ Fault(ioErr)
             /\ IF ioErr
                THEN /\ cl' = [cl EXCEPT ![c] = Returned(c, None, "upsert settings", FALSE)]
                     /\ mu' = Unlocked(c)
                     /\ disk' = disk
                ELSE /\ cl' = [cl EXCEPT ![c].pc = "services"]
                     /\ mu' = mu
                     /\ disk' = [disk EXCEPT !.tx = [settings |-> Settings(cl[c].arg),
                                                     rows |-> disk.rows]]
        /\ UNCHANGED last
     \/ /\ cl[c].pc = "services"
        /\ LET rows == UpsertAll(DeleteMissing(disk.tx.rows, cl[c].arg.services),
                                 cl[c].arg.services)
           IN  \E ioErr \in IOErr :
                 /\ Fault(ioErr)
                 /\ IF ioErr \/ rows = Conflict
                    THEN /\ cl' = [cl EXCEPT ![c] = Returned(c, None, "upsert service", FALSE)]
                         /\ mu' = Unlocked(c)
                         /\ disk' = [disk EXCEPT !.tx = None]
                    ELSE /\ cl' = [cl EXCEPT ![c].pc = "commit"]
                         /\ mu' = mu
                         /\ disk' = [disk EXCEPT !.tx.rows = rows]
        /\ UNCHANGED last
     \/ /\ cl[c].pc = "commit"
        /\ \E ioErr \in IOErr :
             /\ Fault(ioErr)
             /\ IF ioErr
                THEN /\ cl' = [cl EXCEPT ![c] = Returned(c, None, "commit", FALSE)]
                     /\ disk' = [disk EXCEPT !.tx = None]
                     /\ last' = last
                ELSE /\ disk' = [settings |-> disk.tx.settings, rows |-> disk.tx.rows,
                                 tx |-> None]
                     /\ cl' = Committed(c, disk')
                     /\ last' = cl[c].arg
        /\ mu' = Unlocked(c)

\* FileStore.Save: Lock, Validate, the state written to state.json.tmp, the
\* rename over state.json
SaveFile(c) ==
  /\ impl = "file"
  /\ \/ /\ cl[c].pc = "lock"
        /\ CanLock(mu)
        /\ IF Validate(cl[c].arg)
           THEN /\ mu' = [mu EXCEPT !.w = c]
                /\ cl' = [cl EXCEPT ![c].pc = "write"]
           ELSE /\ mu' = mu
                /\ cl' = [cl EXCEPT ![c] = Returned(c, None, "validation failed", FALSE)]
        /\ UNCHANGED <<disk, last, faults>>
     \/ /\ cl[c].pc = "write"
        /\ \E ioErr \in IOErr :
             /\ Fault(ioErr)
             /\ IF ioErr
                THEN /\ cl' = [cl EXCEPT ![c] = Returned(c, None, "write", FALSE)]
                     /\ mu' = Unlocked(c)
                     /\ disk' = disk
                ELSE /\ cl' = [cl EXCEPT ![c].pc = "rename"]
                     /\ mu' = mu
                     /\ disk' = [disk EXCEPT !.tmp = cl[c].arg]
        /\ UNCHANGED last
     \/ /\ cl[c].pc = "rename"
        /\ \E ioErr \in IOErr :
             /\ Fault(ioErr)
             /\ IF ioErr
                THEN /\ cl' = [cl EXCEPT ![c] = Returned(c, None, "rename", FALSE)]
                     /\ disk' = disk
                     /\ last' = last
                ELSE /\ disk' = [file |-> disk.tmp, tmp |-> None]
                     /\ cl' = Committed(c, disk')
                     /\ last' = cl[c].arg
        /\ mu' = Unlocked(c)

\* InMemoryStore.Save: Lock, the State assigned
SaveInMemory(c) ==
  /\ impl = "memory"
  /\ \/ /\ cl[c].pc = "lock"
        /\ CanLock(mu)
        /\ mu' = [mu EXCEPT !.w = c]
        /\ cl' = [cl EXCEPT ![c].pc = "assign"]
        /\ UNCHANGED <<disk, last>>
     \/ /\ cl[c].pc = "assign"
        /\ disk' = [state |-> cl[c].arg]
        /\ cl' = Committed(c, disk')
        /\ last' = cl[c].arg
        /\ mu' = Unlocked(c)
  /\ UNCHANGED faults

StoreSave(c) ==
  /\ cl[c].op = "Save"
  /\ SaveSQLite(c) \/ SaveFile(c) \/ SaveInMemory(c)
  /\ UNCHANGED <<impl, nops>>

NextStore ==
  \E c \in Clients :
    /\ StoreCall(c) \/ StoreLoad(c) \/ StoreSave(c)
    /\ UNCHANGED <<engineVars, apiVars, pure, rollbackVars, daemonVars>>

SpecStore == InitStore /\ [][NextStore]_vars

(* ------------------------------------------------------------------ *)
(* POST /rollback, one request at a time                               *)
(* ------------------------------------------------------------------ *)

\* An entry backup-<ts> or backup-<ts>-current of the backups directory.
\* sort.Strings puts backup-<ts> before backup-<ts>-current and both before
\* every entry of a later ts.
EntryLess(a, b) == a.ts < b.ts \/ (a.ts = b.ts /\ ~a.cur /\ b.cur)
Entries(bk, as) ==
  {[ts |-> t, cur |-> FALSE] : t \in {x \in Clock : Exists(bk[x])}}
    \cup {[ts |-> t, cur |-> TRUE] : t \in {x \in Clock : Exists(as[x])}}
DirOf(bk, as, e) == IF e.cur THEN as[e.ts] ELSE bk[e.ts]

\* latestBackup: the last of the sorted backup-* entries
latestBackup(bk, as) ==
  CHOOSE e \in Entries(bk, as) : \A o \in Entries(bk, as) : ~EntryLess(e, o)

\* latestStateBackup: the last of the sorted state-*.json entries, -1 for ""
latestStateBackup(files) ==
  IF files = {} THEN -1 ELSE CHOOSE t \in files : \A o \in files : o <= t

\* the bundles on disk: current/ and the entries under backups
BundlesOnDisk(cur, bk, as) ==
  ({cur} \cup {bk[t] : t \in Clock} \cup {as[t] : t \in Clock}) \ {NoDir}

\* The daemon has run for a while: current/ holds a bundle or is absent, and
\* deploys of earlier seconds and of this one have left backups with their
\* state files.
InitRollback ==
  /\ now \in Clock
  /\ current \in {NoDir, Bundle(1)}
  /\ staging = [t \in Clock |-> NoDir]
  /\ backups \in {bk \in [Clock -> {NoDir} \cup {Bundle(t + 2) : t \in Clock}] :
                     \A t \in Clock : bk[t] \in {NoDir, Bundle(t + 2)}
                                      /\ (t > now => bk[t] = NoDir)}
  /\ stateFiles = {t \in Clock : Exists(backups[t])}
  /\ pc = [h \in Handlers |-> "idle"]
  /\ dep = [h \in Handlers |-> IdleDep]
  /\ issued = 0
  /\ faults = 0
  /\ store = NewState
  /\ req = [r \in Reqs |-> IdleReq]
  /\ nreq = 0
  /\ pure = NoCall /\ NoStore /\ NoRollback /\ NoDaemon

\* the wall clock moves on
Elapse ==
  /\ now < MaxClock
  /\ now' = now + 1
  /\ UNCHANGED <<current, backups, aside, rb, nrb, faults>>
  /\ UNCHANGED <<staging, stateFiles, pc, dep, issued, apiVars, pure, storeVars, daemonVars>>

RollbackReply(code) == rb' = [rb EXCEPT !.pc = "done", !.status = code]

\* POST /rollback: latestBackup; the pre-rollback folder is named after the
\* second and removed if present; current/ is renamed to it (errors of both
\* dropped); the backup is renamed to current/; Up; the latest state file is
\* copied over the state document, errors dropped.
handleRollback ==
  /\ \/ /\ rb.pc \in {"idle", "done"}
        /\ nrb < MaxRollbacks
        /\ nrb' = nrb + 1
        /\ \E ioErr \in IOErr :
             /\ Fault(ioErr)
             /\ rb' = IF ioErr \/ Entries(backups, aside) = {}
                      THEN [IdleRollback EXCEPT !.pc = "done", !.status = 400]
                      ELSE LET target == latestBackup(backups, aside) IN
                           [IdleRollback EXCEPT
                              !.pc = "remove", !.target = target,
                              !.listing = Entries(backups, aside),
                              !.chosen = DirOf(backups, aside, target),
                              !.cur0 = current,
                              !.before = BundlesOnDisk(current, backups, aside)]
        /\ UNCHANGED <<current, backups, aside>>
     \/ /\ rb.pc = "remove"
        /\ \E ioErr \in IOErr :
             /\ Fault(ioErr)
             /\ aside' = IF ioErr THEN aside ELSE [aside EXCEPT ![now] = NoDir]
        /\ rb' = [rb EXCEPT !.pc = "aside", !.tmp = now]
        /\ UNCHANGED <<current, backups, nrb>>
     \/ /\ rb.pc = "aside"
        /\ \E ioErr \in IOErr :
             /\ Fault(ioErr)
             /\ IF Exists(current) /\ ~ioErr /\ RenameOk(current, aside[rb.tmp])
                THEN current' = NoDir /\ aside' = [aside EXCEPT ![rb.tmp] = current]
                ELSE UNCHANGED <<current, aside>>
        /\ rb' = [rb EXCEPT !.pc = "restore"]
        /\ UNCHANGED <<backups, nrb>>
     \/ /\ rb.pc = "restore"
        /\ \E ioErr \in IOErr :
             LET src == DirOf(backups, aside, rb.target) IN
             /\ Fault(ioErr)
             /\ IF ioErr \/ ~RenameOk(src, current)
                THEN RollbackReply(500) /\ UNCHANGED <<current, backups, aside>>
                ELSE /\ current' = src
                     /\ backups' = IF rb.target.cur THEN backups
                                   ELSE [backups EXCEPT ![rb.target.ts] = NoDir]
                     /\ aside' = IF rb.target.cur
                                 THEN [aside EXCEPT ![rb.target.ts] = NoDir]
                                 ELSE aside
                     /\ rb' = [rb EXCEPT !.pc = "up"]
        /\ UNCHANGED nrb
     \/ /\ rb.pc = "up"
        /\ \E ok \in BOOLEAN :
             IF ok
             THEN rb' = [rb EXCEPT !.pc = "done", !.status = 200, !.upOn = current,
                                   !.restored = latestStateBackup(stateFiles),
                                   !.from = rb.target]
             ELSE RollbackReply(500)
        /\ UNCHANGED <<current, backups, aside, nrb, faults>>
  /\ UNCHANGED now
  /\ UNCHANGED <<staging, stateFiles, pc, dep, issued, apiVars, pure, storeVars, daemonVars>>

NextRollback == Elapse \/ handleRollback

SpecRollback == InitRollback /\ [][NextRollback]_vars

(* ------------------------------------------------------------------ *)
(* POST /rollback beside the deploy engine                              *)
(* ------------------------------------------------------------------ *)

\* the handlers are registered on one mux and share no lock: POST /rollback
\* and the deploy requests of one client, which sends them one after the
\* other, run as the scheduler has them
NextWriters ==
  \/ Tick
  \/ handleRollback
  \/ \E h \in {"h1"} :
       \/ StartDeploy(h)
       \/ GenerateBaseFiles(h)
       \/ Pull(h)
       \/ backupState(h)
       \/ backupCurrentConfig(h)
       \/ Up(h)
       \/ WaitHealthy(h)
       \/ rollbackFromBackup(h)
       \/ promote(h)
       \/ Save(h)
       \/ pruneBackups(h)

\* a live bundle and one backup of an earlier second
InitWriters == InitRollback /\ now = 0 /\ Exists(current) /\ Exists(backups[0])

SpecWriters == InitWriters /\ [][NextWriters]_vars

(* ------------------------------------------------------------------ *)
(* Runner.WaitHealthy called on its own                                *)
(* ------------------------------------------------------------------ *)

\* what docker compose ps reports of a container
ContainerStates == {"running", "running (healthy)", "exited"}
Healths == {"", "healthy", "unhealthy"}
HasPrefixRunning(state) == state \in {"running", "running (healthy)"}
ContainerStatus == [service : ServiceNames, state : ContainerStates, health : Healths]

\* the answers of one PSStatus call: up to MaxContainers containers
Polls == UNION {[1..n -> ContainerStatus] : n \in 0..MaxContainers}

\* the loop over the containers of one poll, with its continue and its breaks
RECURSIVE AllHealthy(_, _)
AllHealthy(containers, targets) ==
  IF containers = << >> THEN TRUE
  ELSE LET c == Head(containers) IN
       IF targets # {} /\ ToLower(c.service) \notin targets
       THEN AllHealthy(Tail(containers), targets)
       ELSE IF ~HasPrefixRunning(c.state) THEN FALSE
       ELSE IF c.health # "" /\ c.health # "healthy" THEN FALSE
       ELSE AllHealthy(Tail(containers), targets)

\* poll is the answer of the PSStatus call that made WaitHealthy return nil
InitWait ==
  /\ Idle /\ NoStore /\ NoRollback /\ NoDaemon
  /\ pure \in { [f |-> "WaitHealthy", arg |-> [services |-> S, poll |-> << >>, n |-> 0],
                 ret |-> "", done |-> FALSE] : S \in SUBSET ServiceNames }

\* one turn of WaitHealthy's loop: the deadline has passed; or PSStatus is
\* called and all targets are found healthy; or the context is done; or the
\* ticker fires and the loop goes round
RunnerWaitHealthy ==
  /\ pure.f = "WaitHealthy" /\ ~pure.done
  /\ \/ pure' = [pure EXCEPT !.ret = "timeout waiting for services to become healthy",
                             !.done = TRUE]
     \/ /\ pure.arg.n < MaxPolls
        /\ \E err \in BOOLEAN, containers \in Polls, ctxDone \in BOOLEAN :
             LET targets == {ToLower(s) : s \in pure.arg.services}
                 polled == [pure EXCEPT !.arg.n = @ + 1]
             IN  pure' = IF ~err /\ Len(containers) > 0 /\ AllHealthy(containers, targets)
                         THEN [polled EXCEPT !.arg.poll = containers,
                                             !.ret = "nil", !.done = TRUE]
                         ELSE IF ctxDone
                         THEN [polled EXCEPT !.ret = "context canceled", !.done = TRUE]
                         ELSE polled
  /\ UNCHANGED <<engineVars, faults, apiVars, storeVars, rollbackVars, daemonVars>>

NextWait == RunnerWaitHealthy

SpecWait == InitWait /\ [][NextWait]_vars

(* ------------------------------------------------------------------ *)
(* Runner.WaitHealthy against the clock                                 *)
(* ------------------------------------------------------------------ *)

\* The loop with time in seconds since the call: deadline is
\* time.Now().Add(timeout), t the time now, tick whether the ticker's
\* channel holds a tick, at the time of the return.
InitDeadline ==
  /\ Idle /\ NoStore /\ NoRollback /\ NoDaemon
  /\ pure \in { [f |-> "WaitHealthy.loop",
                  arg |-> [deadline |-> d, pc |-> "check", t |-> 0, tick |-> FALSE,
                           ctx |-> "", at |-> 0],
                  ret |-> "", done |-> FALSE] : d \in 1..MaxTime }

\* a second passes; the ticker fires every TickerPeriod seconds into a
\* channel that holds one tick
Passes ==
  /\ pure.f = "WaitHealthy.loop" /\ ~pure.done
  /\ pure.arg.t < MaxTime
  /\ pure' = [pure EXCEPT !.arg.t = @ + 1,
                          !.arg.tick = @ \/ (pure.arg.t + 1) % TickerPeriod = 0]
  /\ UNCHANGED <<engineVars, faults, apiVars, storeVars, rollbackVars, daemonVars>>

\* the context of the request is cancelled
ContextDone ==
  /\ pure.f = "WaitHealthy.loop" /\ ~pure.done
  /\ pure.arg.ctx = ""
  /\ pure' = [pure EXCEPT !.arg.ctx = "canceled"]
  /\ UNCHANGED <<engineVars, faults, apiVars, storeVars, rollbackVars, daemonVars>>

\* one statement of the loop: the deadline test; PSStatus returning, with
\* all targets healthy or not (an error under a cancelled context); the
\* select on ctx.Done() and the ticker
WaitHealthyLoop ==
  /\ pure.f = "WaitHealthy.loop" /\ ~pure.done
  /\ LET a == pure.arg
         return(err) == [pure EXCEPT !.ret = err, !.done = TRUE, !.arg.at = a.t]
     IN \/ /\ a.pc = "check"
           /\ pure' = IF a.t > a.deadline
                      THEN return("timeout waiting for services to become healthy")
                      ELSE [pure EXCEPT !.arg.pc = "ps"]
        \/ /\ a.pc = "ps"
           /\ \E allHealthy \in IF a.ctx = "canceled" THEN {FALSE} ELSE BOOLEAN :
                pure' = IF allHealthy THEN return("nil")
                        ELSE [pure EXCEPT !.arg.pc = "select"]
        \/ /\ a.pc = "select"
           /\ \/ a.ctx = "canceled" /\ pure' = return("context canceled")
              \/ a.tick /\ pure' = [pure EXCEPT !.arg.pc = "check", !.arg.tick = FALSE]
  /\ UNCHANGED <<engineVars, faults, apiVars, storeVars, rollbackVars, daemonVars>>

NextDeadline ==
  \/ Passes
  \/ ContextDone
  \/ WaitHealthyLoop

SpecDeadline == InitDeadline /\ [][NextDeadline]_vars

(* ------------------------------------------------------------------ *)
(* tinyserved: serving, the signal, the shutdown                        *)
(* ------------------------------------------------------------------ *)

ShutdownOrder == <<"admin", "ui", "webhook">>

InitDaemon == Idle /\ pure = NoCall /\ NoStore /\ NoRollback /\ NoDaemon

\* a request arrives on a server that still listens / a request in flight ends
ServeHTTP(s) ==
  /\ \/ /\ daemon.state[s] = "listening"
        /\ daemon.conns[s] < MaxConns
        /\ daemon' = [daemon EXCEPT !.conns[s] = @ + 1]
     \/ /\ daemon.conns[s] > 0
        /\ daemon' = [daemon EXCEPT !.conns[s] = @ - 1]
  /\ UNCHANGED <<engineVars, faults, apiVars, pure, storeVars, rollbackVars>>

\* the 30 seconds of shutdownCtx are over
DrainTimeout ==
  /\ daemon.drain = "running"
  /\ daemon' = [daemon EXCEPT !.drain = "expired"]
  /\ UNCHANGED <<engineVars, faults, apiVars, pure, storeVars, rollbackVars>>

\* run's select and what follows.  On ctx.Done() the servers are shut down one
\* after the other under one 30-second context: Shutdown closes the listener
\* at the call and returns nil once no request is in flight on that server,
\* ctx.Err() once the context is done; run returns the first error at once.
\* On a server error run returns that error.
run ==
  /\ \/ /\ daemon.pc = "select"
        /\ \/ daemon' = [daemon EXCEPT !.pc = "call", !.signalled = TRUE,
                                       !.drain = "running"]
           \/ daemon' = [daemon EXCEPT !.pc = "returned", !.ret = "listen"]
     \/ /\ daemon.pc = "call"
        /\ LET s == ShutdownOrder[daemon.i] IN
           daemon' = [daemon EXCEPT !.pc = "wait", !.state[s] = "draining",
                                    !.attempted = @ \cup {s}]
     \/ /\ daemon.pc = "wait"
        /\ LET s == ShutdownOrder[daemon.i] IN
           \/ /\ daemon.conns[s] = 0
              /\ daemon' = IF daemon.i = Len(ShutdownOrder)
                           THEN [daemon EXCEPT !.state[s] = "closed", !.pc = "returned",
                                               !.ret = "nil"]
                           ELSE [daemon EXCEPT !.state[s] = "closed", !.pc = "call",
                                               !.i = @ + 1]
           \/ /\ daemon.conns[s] > 0 /\ daemon.drain = "expired"
              /\ daemon' = [daemon EXCEPT !.pc = "returned",
                                          !.ret = "shutdown: context deadline exceeded"]
  /\ UNCHANGED <<engineVars, faults, apiVars, pure, storeVars, rollbackVars>>

NextDaemon ==
  \/ \E s \in Servers : ServeHTTP(s)
  \/ DrainTimeout
  \/ run

SpecDaemon == InitDaemon /\ [][NextDaemon]_vars

(* ------------------------------------------------------------------ *)
(* The generator (generate.GenerateBaseFiles)                          *)
(* ------------------------------------------------------------------ *)

\* The keys of a service's Env map are 1..MaxEnv, in the byte order of the
\* strings they stand for.  A hostname is the text before and after its
\* first dot where the generator builds it ("<name>.<domain>"), and its
\* whole text in dom where the state carries it.
GenKeys == 1..MaxEnv

Host(sub, dom) == [sub |-> sub, dom |-> dom]

\* the byte order of the hostnames that occur: "A.io" < "B.io" < "a.io" <
\* "app.example.com" <
\* "app.x.io" < "b.io" < "web.example.com" < "web.x.io" <
\* "whoami.example.com" < "whoami.x.io"
DomRank(dom) == IF dom = "example.com" THEN 1 ELSE 2
HostRank(h) ==
  CASE h.sub = "" /\ h.dom = "A.io" -> 4
    [] h.sub = "" /\ h.dom = "B.io" -> 5
    [] h.sub = "" /\ h.dom = "a.io" -> 10
    [] h.sub = "app" -> 20 + DomRank(h.dom)
    [] h.sub = "" /\ h.dom = "b.io" -> 30
    [] h.sub = "web" -> 40 + DomRank(h.dom)
    [] OTHER -> 50 + DomRank(h.dom)

\* a line of a generated file: what it is, and the number or the text in it
Line(k, n, s) == [k |-> k, n |-> n, s |-> s]

\* the services a State handed to the generator may hold: any name (also
\* one that sanitizeName empties), enabled or not, any set of Env keys, no
\* hostname, one, or two in descending order, or two of which one has a
\* capital letter
GenNames == ServiceNames \cup {<<"", 0>>}
GenHostLists ==
  {<< >>, <<Host("", "a.io")>>, <<Host("", "b.io"), Host("", "a.io")>>,
   <<Host("", "a.io"), Host("", "B.io")>>, <<Host("", "a.io"), Host("", "A.io")>>}
GenServices ==
  {[name |-> n, enabled |-> e, env |-> E, hostnames |-> H] :
     n \in GenNames, e \in BOOLEAN, E \in SUBSET GenKeys, H \in GenHostLists}
Sidecar == [name |-> <<"web", 0>>, enabled |-> TRUE, env |-> {}, hostnames |-> << >>]

\* the States: no service, one, or one followed by a second that has
\* neither Env nor hostnames; settings.default_domain and the hostname of
\* the remote UI, set or not
GenStates ==
  {[services |-> S, domain |-> d, remote |-> u] :
     S \in {<< >>} \cup {<<a>> : a \in GenServices} \cup {<<a, Sidecar>> : a \in GenServices},
     d \in {"", "x.io"}, u \in {"", "b.io"}}

\* generate.go's sanitizeName over the names above: lower case; the empty
\* name stays empty
generateSanitizeName(name) == ToLower(name)[1]

\* `for k := range svc.Env`: the keys in any order
RangeOver(env) == {q \in [1..Cardinality(env) -> env] : Range(q) = env}

\* the orders in which one run may see the Env map of each service
Iterations(s) ==
  {it \in [DOMAIN s.services -> UNION {RangeOver(E) : E \in SUBSET GenKeys}] :
     \A i \in DOMAIN s.services : it[i] \in RangeOver(s.services[i].env)}

RECURSIVE Ascending(_)
Ascending(S) ==
  IF S = {} THEN << >>
  ELSE LET m == CHOOSE x \in S : \A y \in S : x <= y
       IN <<m>> \o Ascending(S \ {m})

\* the keys as the range statement produced them
AsRanged(keys) == keys

\* sort.Strings(keys) in appendService
SortKeys(keys) == Ascending(Range(keys))

\* sort.Strings(hostnames) in writeCloudflared
RECURSIVE SortHosts(_)
SortHosts(S) ==
  IF S = {} THEN << >>
  ELSE LET m == CHOOSE x \in S : \A y \in S : HostRank(x) <= HostRank(y)
       IN <<m>> \o SortHosts(S \ {m})

\* unique: the first occurrence of each non-empty hostname, in order
RECURSIVE unique(_)
unique(in) ==
  IF in = << >> THEN << >>
  ELSE LET front == unique(SubSeq(in, 1, Len(in) - 1))
           h == in[Len(in)]
       IN IF h.dom = "" \/ h \in Range(front) THEN front ELSE Append(front, h)

Domain(s) == IF s.domain = "" THEN "example.com" ELSE s.domain

\* buildTraefikLabels: traefik.enable, then the three router labels of each
\* hostname (of "<name>.<domain>" when the service has none)
buildTraefikLabels(name, svc, defaultDomain) ==
  LET hosts == IF Len(svc.hostnames) = 0 /\ defaultDomain # ""
               THEN <<Host(name, defaultDomain)>> ELSE svc.hostnames
      router(i) == <<Line("rule", i, hosts[i].sub \o "." \o hosts[i].dom),
                     Line("entrypoints", i, name), Line("service", i, name)>>
      routers[i \in 0..Len(hosts)] == IF i = 0 THEN << >> ELSE routers[i - 1] \o router(i)
  IN <<Line("traefik.enable", 0, IF svc.enabled THEN "true" ELSE "false")>>
       \o routers[Len(hosts)]

\* appendService: nothing for a name that sanitizes to ""; else the name, the
\* environment by sorted key when there is one, and the labels
appendService(svc, keys, defaultDomain) ==
  LET name == generateSanitizeName(svc.name)
      sorted == SortKeys(keys)
  IN IF name = "" THEN << >>
     ELSE <<Line("service", 0, name), Line("networks", 0, "edge")>>
            \o (IF svc.env # {}
                THEN <<Line("environment", 0, "")>>
                       \o [i \in 1..Len(sorted) |-> Line("env", sorted[i], name)]
                ELSE << >>)
            \o buildTraefikLabels(name, svc, defaultDomain)

\* writeCompose: the project, traefik, cloudflared and whoami, then every
\* enabled service in the order of the State
writeCompose(s, it) ==
  LET body[i \in 0..Len(s.services)] ==
        IF i = 0 THEN << >>
        ELSE IF ~s.services[i].enabled THEN body[i - 1]
        ELSE body[i - 1] \o appendService(s.services[i], it[i], Domain(s))
  IN <<Line("name", 0, "tinyserve"), Line("traefik", 0, ""), Line("cloudflared", 0, ""),
       Line("whoami", 0, "whoami." \o Domain(s))>>
       \o body[Len(s.services)] \o <<Line("networks", 0, "edge")>>

\* collectHostnames: whoami, the hostnames of the enabled services (or
\* "<name>.<domain>"), the remote UI hostname
collectHostnames(s) ==
  LET of(svc) == IF ~svc.enabled THEN << >>
                 ELSE IF Len(svc.hostnames) > 0 THEN svc.hostnames
                 ELSE IF svc.name[1] # ""
                 THEN <<Host(generateSanitizeName(svc.name), Domain(s))>>
                 ELSE << >>
      hosts[i \in 0..Len(s.services)] ==
        IF i = 0 THEN <<Host("whoami", Domain(s))>> ELSE hosts[i - 1] \o of(s.services[i])
  IN unique(hosts[Len(s.services)] \o <<Host("", s.remote)>>)

\* writeCloudflared: the tunnel, then an ingress rule for each hostname in
\* sorted order (the remote UI hostname goes to the UI port), then the 404;
\* the line of a rule carries the hostname as it is
writeCloudflared(s, hostnames) ==
  LET sorted == SortHosts(Range(hostnames))
  IN <<Line("tunnel", 0, "YOUR_TUNNEL_ID")>>
       \o [i \in 1..Len(sorted) |->
             Line(IF s.remote # "" /\ sorted[i] = Host("", s.remote)
                  THEN "http://host.docker.internal:7071" ELSE "http://traefik:80",
                  HostRank(sorted[i]), sorted[i])]
       \o <<Line("http_status:404", 0, "")>>

writeTraefikDynamic == <<Line("http", 0, ""), Line("middlewares", 0, ""),
                         Line("routers", 0, ""), Line("services", 0, "")>>

\* what a run leaves in its staging directory
Files(s, it) ==
  [compose |-> writeCompose(s, it),
   cloudflared |-> writeCloudflared(s, collectHostnames(s)),
   traefik |-> writeTraefikDynamic]

InitGen ==
  /\ Idle /\ NoStore /\ NoRollback /\ NoDaemon
  /\ pure \in { [f |-> "GenerateBaseFiles", arg |-> s, ret |-> << >>, done |-> FALSE] :
                  s \in GenStates }

\* one run of the generator on the State: the Env maps are ranged over in
\* some order, current/ is whatever it is at the time, and the three files
\* are written from the State
Generate ==
  /\ pure.f = "GenerateBaseFiles" /\ Len(pure.ret) < MaxRuns
  /\ \E it \in Iterations(pure.arg), cur \in {NoDir, Bundle(1)} :
       pure' = [pure EXCEPT !.ret = Append(@, [it |-> it, cur |-> cur,
                                               files |-> Files(pure.arg, it)]),
                            !.done = TRUE]
  /\ UNCHANGED <<engineVars, faults, apiVars, storeVars, rollbackVars, daemonVars>>

NextGen == Generate

SpecGen == InitGen /\ [][NextGen]_vars

(* ------------------------------------------------------------------ *)
(* Claims about the deploy engine                                      *)
(* ------------------------------------------------------------------ *)

IsPrefix(p, q) == Len(p) <= Len(q) /\ \A n \in 1..Len(p) : p[n] = q[n]

\* the step with which the request of h returns
Returns(h) == pc[h] # "done" /\ pc'[h] = "done"

\* C1: when a deploy that found a current/ bundle returns after its health
\* wait failed, current/ is what it was when the request came in
C1_HealthFailureKeepsCurrent ==
  [][\A h \in Handlers :
       (Returns(h) /\ dep[h].health = "failed" /\ Exists(dep[h].cur0))
          => current' = dep[h].cur0]_vars

\* C2: a deploy renames its staging directory to current/ only after its own
\* Up and WaitHealthy succeeded; a deploy whose Up or WaitHealthy failed never
\* performs that rename
C2_PromoteOnlyAfterHealthy ==
  \A h \in Handlers :
     /\ pc[h] \in {"promote", "promoteMove", "promoteRename"} \/ dep[h].promoted
           => /\ dep[h].health = "healthy"
              /\ {"UP", "WAIT"} \subseteq Range(dep[h].phases)
     /\ dep[h].res = "docker up" \/ dep[h].health = "failed"
           => /\ ~dep[h].promoted
              /\ "PROMOTE" \notin Range(dep[h].phases)

C2_Witness ==
  \E h \in Handlers :
     dep[h].promoted /\ Exists(current) /\ current = Bundle(dep[h].id)

\* C3: two deploy requests that overlap in time do not both promote
C3_SingleFlight ==
  ~ \E g, h \in Handlers :
       /\ g # h
       /\ dep[g].id \in dep[h].overlap
       /\ dep[g].promoted /\ dep[h].promoted

\* a deploy that has generated its staging directory and not yet promoted it
Staged(h) == pc[h] \in {"pull", "backupState", "backupConfig", "up", "wait"}

\* C23: two deploys that hold a staging directory at the same time hold
\* different ones, and the directory a deploy holds contains the bundle that
\* this deploy generated
C23_StagingOwned ==
  /\ \A g, h \in Handlers : g # h /\ Staged(g) /\ Staged(h) => dep[g].sts # dep[h].sts
  /\ \A h \in Handlers : Staged(h) => staging[dep[h].sts] = Bundle(dep[h].id)

\* C4: whenever current/docker-compose.yml exists it is a complete file, and
\* every file beside it in current/ comes from the same bundle
C4_ComposeNeverTorn ==
  (Exists(current) /\ current[ComposeFile] # Missing)
     => /\ current[ComposeFile] # Partial
        /\ \A f \in FileIdx : current[f] \in {Missing, current[ComposeFile]}

\* C8: a deploy whose Up on the staging bundle failed has gone through RESTORE
\* by the time it reports the failure
C8_UpFailureRestores ==
  \A h \in Handlers :
     (pc[h] = "done" /\ dep[h].res = "docker up")
        => "RESTORE" \in Range(dep[h].phases)

\* C9: the phases of one deploy are started in the order GEN, PULL, BACKUP, UP,
\* WAIT and then PROMOTE, PRUNE or else RESTORE, and UP is started only when the
\* backup of the state document and the backup of current/ both returned
\* without error
PromotePath == <<"GEN", "PULL", "BACKUP", "UP", "WAIT", "PROMOTE", "PRUNE">>
RestorePath == <<"GEN", "PULL", "BACKUP", "UP", "WAIT", "RESTORE">>
C9_PhaseOrder ==
  \A h \in Handlers :
     /\ IsPrefix(dep[h].phases, PromotePath) \/ IsPrefix(dep[h].phases, RestorePath)
     /\ "UP" \in Range(dep[h].phases) => dep[h].bkState /\ dep[h].bkConfig

C9_Witness ==
  \E g, h \in Handlers :
     /\ dep[g].phases = PromotePath /\ dep[g].bkState /\ dep[g].bkConfig
     /\ dep[h].phases = RestorePath /\ dep[h].res = "rolled back"

\* C12: when the health wait of a deploy failed and the restore failed too,
\* the answer contains the error WaitHealthy returned and the error
\* rollbackFromBackup returned
RestoreErrors == {"backup not found", "restore backup", "docker up after rollback"}
C12_BothErrorsReported ==
  \A h \in Handlers :
     (pc[h] = "done" /\ dep[h].health = "failed" /\ dep[h].res = "rollback failed")
        => /\ dep[h].herr # "" /\ dep[h].herr \in dep[h].msg
           /\ dep[h].msg \cap RestoreErrors # {}

\* a request answered so after the copy back to current/ failed half way
C12_Witness ==
  \E h \in Handlers :
     /\ pc[h] = "done" /\ dep[h].res = "rollback failed"
     /\ {"timeout waiting", "restore backup"} \subseteq dep[h].msg
     /\ Exists(current) /\ Partial \in Range(current)

\* C13: no call a deploy makes after it has issued UP returns the error of
\* the request's cancelled context: a client that goes away cuts nothing short
C13_CancelDoesNotAbort ==
  \A h \in Handlers :
     "UP" \in Range(dep[h].phases) => dep[h].ctxErr = {}

\* the services a request names, in service or in services
Named(d) == {ToLower(x) : x \in ({d.service} \cup d.services) \ {<<"", 0>>}}
Targeted(d, name) == Named(d) = {} \/ ToLower(name) \in Named(d)
StampedBy(d) ==
  {n \in DOMAIN store.services : d.id > 0 /\ store.services[n].lastDeploy = d.id}

\* C19: when a deploy has answered "deployed", the stored services that carry
\* its last_deploy stamp are the services it named (all of them when it named
\* none); a deploy that has not started PROMOTE has stamped no service
C19_StampsTargets ==
  \A h \in Handlers :
     /\ (pc[h] = "done" /\ dep[h].res = "deployed")
          => StampedBy(dep[h]) =
               {n \in DOMAIN store.services : Targeted(dep[h], store.services[n].name)}
     /\ "PROMOTE" \notin Range(dep[h].phases) => StampedBy(dep[h]) = {}

\* C20: the targets a POST /deploy hands to Pull, Up and WaitHealthy are the
\* names of its service field and of its services list together
C20_TargetsAreUnion ==
  \A h \in Handlers :
     (dep[h].kind = "api" /\ "PULL" \in Range(dep[h].phases))
        => dep[h].targets = Named(dep[h])

\* C10: once every deploy issued so far has finished, the backups directory
\* holds at most max_backups backup-* directories and state-*.json files
C10_BackupBound ==
  (\A h \in Handlers : ~InFlight(h))
     => /\ Cardinality({t \in Clock : Exists(backups[t])}) <= MaxKeep
        /\ Cardinality(stateFiles) <= MaxKeep

\* the n greatest names of a set
Greatest(S, n) == {x \in S : Cardinality({y \in S : NameLess(x, y)}) < n}
BackupDirs(entries) == {e \in entries : e.pre = "backup-" /\ e.isDir}
StateJsons(entries) == {e \in entries : e.pre = "state-" /\ e.tail = ".json" /\ ~e.isDir}

RolledBack == rb.pc = "done" /\ rb.status = 200

\* C21: a POST /rollback that succeeds reports the backup-* entry of the
\* greatest name, current/ then holds exactly the bundle that entry held, the
\* bundle that was current before is in the pre-rollback folder named after
\* the second of the call, and Up was run on the new current/
C21_RollbackSwaps ==
  RolledBack =>
    /\ rb.from \in rb.listing
    /\ \A e \in rb.listing : ~EntryLess(rb.from, e)
    /\ current = rb.chosen
    /\ rb.upOn = rb.chosen
    /\ Exists(rb.cur0) => aside[rb.tmp] = rb.cur0

\* C22: after a POST /rollback that succeeded there are at least as many
\* distinct bundles on disk (current/ and the entries under backups) as
\* before, and the bundle that was current before is one of the pre-rollback
\* folders
C22_RollbackKeepsBundles ==
  RolledBack =>
    /\ Cardinality(BundlesOnDisk(current, backups, aside)) >= Cardinality(rb.before)
    /\ Exists(rb.cur0) => rb.cur0 \in {aside[t] : t \in Clock}

(* ------------------------------------------------------------------ *)
(* Claims about Runner.WaitHealthy                                     *)
(* ------------------------------------------------------------------ *)

\* the containers a poll shows of a service, letter case set aside
ContainersOf(poll, s) == {n \in DOMAIN poll : SameText(poll[n].service, s)}
Healthy(c) == HasPrefixRunning(c.state) /\ c.health \in {"", "healthy"}

\* C24: WaitHealthy returns nil only when its last poll shows every named
\* service (every service the poll shows, when none is named) with a state
\* that starts with "running" and a health that is empty or "healthy"
C24_HealthyMeansAllRunning ==
  pure.f = "WaitHealthy" /\ pure.done /\ pure.ret = "nil" =>
    LET poll == pure.arg.poll
        named == IF pure.arg.services = {} THEN {poll[n].service : n \in DOMAIN poll}
                 ELSE pure.arg.services
    IN  /\ poll # << >>
        /\ \A s \in named :
             /\ ContainersOf(poll, s) # {}
             /\ \A n \in ContainersOf(poll, s) : Healthy(poll[n])

(* ------------------------------------------------------------------ *)
(* Claims about the daemon                                             *)
(* ------------------------------------------------------------------ *)

\* C26: when run has returned after SIGINT or SIGTERM, Shutdown has been
\* called on each of the three servers, and each of them has closed unless
\* the 30 seconds of the drain are over
C26_AllServersShutDown ==
  daemon.pc = "returned" /\ daemon.signalled =>
    /\ daemon.attempted = Servers
    /\ (\A s \in Servers : daemon.state[s] = "closed") \/ daemon.drain = "expired"

(* ------------------------------------------------------------------ *)
(* Claims about the generator                                          *)
(* ------------------------------------------------------------------ *)

\* C28: any two runs of the generator on one State leave the same
\* docker-compose.yml, cloudflared/config.yml and traefik/dynamic.yml,
\* whatever the order in which the Env maps were ranged over and whatever
\* current/ held
C28_GeneratorDeterministic ==
  pure.f = "GenerateBaseFiles" =>
    \A m, n \in DOMAIN pure.ret : pure.ret[m].files = pure.ret[n].files

\* two runs on a State with an enabled service of two Env keys, which they
\* ranged over in different orders, with and without a current/
C28_Witness ==
  /\ pure.f = "GenerateBaseFiles"
  /\ \E m, n \in DOMAIN pure.ret :
       /\ pure.ret[m].it # pure.ret[n].it
       /\ pure.ret[m].cur # pure.ret[n].cur
       /\ \E i \in DOMAIN pure.arg.services :
            /\ pure.arg.services[i].enabled
            /\ generateSanitizeName(pure.arg.services[i].name) # ""
            /\ Cardinality(pure.arg.services[i].env) > 1

(* ------------------------------------------------------------------ *)
(* Claims about the stores                                             *)
(* ------------------------------------------------------------------ *)

SaveReturned(c) == cl[c].op = "Save" /\ cl[c].pc = "done"
LoadReturned(c) == cl[c].op = "Load" /\ cl[c].pc = "done" /\ cl[c].err = ""
Writing(c) ==
  /\ cl[c].op = "Save"
  /\ cl[c].pc \in {"settings", "services", "commit", "write", "rename", "assign"}
Reading(c) == cl[c].op = "Load" /\ cl[c].pc \in {"settings", "services"}

\* C14: in every Store implementation, a Save of a State that fails Validate
\* returns the validation error and leaves what the store holds as it was
C14_InvalidSaveRejected ==
  \A c \in Clients :
    SaveReturned(c) /\ ~Validate(cl[c].arg)
      => cl[c].err = "validation failed" /\ ~cl[c].wrote

\* C15: a Load that runs while Saves are called returns a State the store
\* held, whole, at some moment of the Load (the State before or after a Save,
\* never the settings of one Save with the services of another); at most one
\* Save is inside the store at a time, and none while a Load is inside
C15_LoadSeesOneSave ==
  /\ \A c \in Clients : LoadReturned(c) => cl[c].ret \in cl[c].during
  /\ \A c, k \in Clients : Writing(c) /\ Writing(k) => c = k
  /\ \A c, k \in Clients : ~(Writing(c) /\ Reading(k))

\* a Load has returned what an earlier Save stored while the other goroutine
\* has called Save and waits for the lock
C15_Witness ==
  \E c, k \in Clients :
    /\ LoadReturned(c) /\ cl[c].ret = last /\ last # None
    /\ cl[k].op = "Save" /\ cl[k].pc = "lock" /\ cl[k].arg # last

\* C16: once Save(S) has returned nil, Load returns exactly the services of
\* S: none that S lacks, every one S has, with S's field values
C16_LoadReturnsSavedServices ==
  last # None => Range(LoadOf(impl, disk).services) = Range(last.services)

\* C17: once Save(S) of a valid State S has returned nil, Load returns the
\* content of S: its settings, its Cloudflare API token and remote-access
\* settings, its API tokens, and its services
SameContent(a, b) ==
  /\ a.project = b.project /\ a.port = b.port
  /\ a.cf = b.cf /\ a.remote = b.remote
  /\ a.tokens = b.tokens
  /\ Range(a.services) = Range(b.services)
C17_RoundTrip ==
  last # None /\ Validate(last) => SameContent(LoadOf(impl, disk), last)

(* ------------------------------------------------------------------ *)
(* Claims about the state handlers                                     *)
(* ------------------------------------------------------------------ *)

\* the services of a state that hold a hostname spelling the text of host
HostOwners(services, host) ==
  {n \in DOMAIN services : \E x \in services[n].hosts : SameText(x, host)}

NameOwners(services, name) ==
  {n \in DOMAIN services : SameText(services[n].name, name)}

Conflicting(p, q) ==
  \/ SameText(p.name, q.name)
  \/ \E a \in p.hosts, b \in q.hosts : SameText(a, b)
C6_SaveArbitrates ==
  \A r1, r2 \in Reqs :
     (/\ r1 # r2 /\ req[r1].op = "add" /\ req[r2].op = "add"
      /\ req[r2].id \in req[r1].raced
      /\ Conflicting(req[r1], req[r2]))
     => ~(req[r1].status = 200 /\ req[r2].status = 200)

\* C7: a webhook request whose Authorization header is not Bearer ts_<64 hex>
\* matching a hash of the loaded state is answered 401, makes no Store.Save
\* call, leaves its stamp on no token and never reaches applyConfig; a webhook
\* request turned away before the state was loaded has no effect either
CarriesValidToken(hdr, tokens) ==
  /\ hdr.scheme = "Bearer"
  /\ hdr.token.prefix = "ts_" /\ hdr.token.hexlen = 64 /\ hdr.token.hex
  /\ \E n \in DOMAIN tokens : tokens[n].hash = <<"bcrypt", hdr.token>>
C7_UnauthenticatedWebhookRejected ==
  \A r \in Reqs :
     req[r].op = "webhook" =>
       /\ (req[r].loaded /\ ~CarriesValidToken(req[r].hdr, req[r].seen.tokens))
            => /\ req[r].pc = "done" /\ req[r].status = 401
               /\ req[r].saves = 0 /\ ~req[r].applied
               /\ \A n \in DOMAIN store.tokens : store.tokens[n].lastUsed # req[r].id
       /\ ~req[r].loaded => req[r].saves = 0 /\ ~req[r].applied

C7_Witness ==
  \E r \in Reqs :
     /\ req[r].op = "webhook" /\ req[r].pc = "done" /\ req[r].status = 401
     /\ req[r].hdr.scheme = "Bearer" /\ req[r].hdr.token \notin Malformed
     /\ Len(req[r].seen.tokens) > 0
     /\ Len(store.tokens) > 0

\* the stored services a webhook's {name} spells, letter case set aside
Found(services, name) == {n \in DOMAIN services : SameText(services[n].name, name)}
First(S) == CHOOSE n \in S : \A m \in S : n <= m

\* C25: an authenticated POST /webhook/deploy/{name} with a well-formed
\* timeout is answered 404 when no stored service has that name in any letter
\* case and 400 when the service of that name is disabled (500 when the state
\* cannot be loaded), and applyConfig is not called in either case; when
\* applyConfig is called, its targets are that one service
C25_WebhookLookup ==
  \A r \in Reqs :
     (/\ req[r].op = "webhook" /\ req[r].pc = "done" /\ req[r].timeout = ""
      /\ CarriesValidToken(req[r].hdr, req[r].seen.tokens))
     => LET found == Found(store.services, req[r].name) IN
        /\ found = {} => req[r].status \in {404, 500} /\ ~req[r].applied
        /\ (found # {} /\ ~store.services[First(found)].enabled)
             => req[r].status \in {400, 500} /\ ~req[r].applied
        /\ req[r].status = 404 => found = {}
        /\ req[r].applied
             => /\ found # {} /\ store.services[First(found)].enabled
                /\ req[r].targets = {<<store.services[First(found)].name[1], 0>>}

\* one authenticated webhook was answered 404 for a name that is not stored,
\* another 400 for the stored, disabled service spelled in another letter case
C25_Witness ==
  \E r, q \in Reqs :
     /\ req[r].op = "webhook" /\ req[r].pc = "done" /\ req[r].status = 404
     /\ req[q].op = "webhook" /\ req[q].pc = "done" /\ req[q].status = 400
     /\ req[q].timeout = "" /\ req[q].loaded
     /\ Found(store.services, req[q].name) # {}
     /\ \A n \in DOMAIN store.services : store.services[n].name # req[q].name

\* C27: the plaintext of a token is in no answer but the 200 of the POST
\* /tokens that created it, and the hash of a stored token is in no answer
C27_TokenSecrecy ==
  \A r \in Reqs :
     /\ \A n \in DOMAIN store.tokens : StrHash(store.tokens[n].hash) \notin req[r].body
     /\ \A k \in TokenIDs :
          StrToken(TokenText(k)) \in req[r].body
            => req[r].op = "token" /\ req[r].id = k /\ req[r].status = 200

\* a GET /tokens has answered with the ID and the last use of a token that a
\* POST /tokens had stored
C27_Witness ==
  \E r \in Reqs :
     /\ req[r].op = "list" /\ req[r].pc = "done" /\ req[r].status = 200
     /\ \E n \in DOMAIN store.tokens :
          /\ store.tokens[n].hash = HashToken(TokenText(store.tokens[n].id))
          /\ tokenResponse(store.tokens[n]) \subseteq req[r].body

\* C29: the Save that ends a deploy removes no service and no token that the
\* store held when it was called
C29_DeployKeepsChanges ==
  [][\A r \in Reqs :
       req[r].op = "webhook" /\ req[r].pc = "stamp"
         => /\ \A n \in DOMAIN store.services :
                 \E m \in DOMAIN store'.services :
                    store'.services[m].name = store.services[n].name
            /\ \A n \in DOMAIN store.tokens :
                 \E m \in DOMAIN store'.tokens :
                    store'.tokens[m].hash = store.tokens[n].hash]_vars

\* C30: once DELETE /tokens/{id} has answered 200, no stored token has that ID
C30_RevokedStaysRevoked ==
  \A r \in Reqs :
     req[r].op = "revoke" /\ req[r].pc = "done" /\ req[r].status = 200
       => \A n \in DOMAIN store.tokens : store.tokens[n].id # req[r].tid

\* a deploy that has started its BACKUP phase and ended neither its PROMOTE
\* nor its RESTORE phase
Between(h) ==
  pc[h] \in {"backupConfig", "up", "wait", "rollback", "rollbackCopy", "rollbackUp",
             "promote", "promoteMove", "promoteRename"}

\* C31: a manual rollback renames or removes current/ only while no deploy is
\* between BACKUP and the end of PROMOTE or RESTORE, and a deploy in that
\* stretch writes current/ only while no manual rollback is under way
C31_OneWriter ==
  [][current' # current =>
       /\ rb' # rb => \A h \in Handlers : ~Between(h)
       /\ pc' # pc => rb.pc \in {"idle", "done"}]_vars

\* C32: the BACKUP phase of a deploy whose timestamp is that of a backup
\* already on disk, with other contents than current/, leaves that backup as
\* it is
C32_BackupKept ==
  [][\A h \in Handlers :
       /\ pc[h] = "backupConfig" /\ dep[h].i <= 1 /\ dep'[h] # dep[h]
       /\ Exists(backups[dep[h].ts]) /\ ~IsEmpty(backups[dep[h].ts])
       /\ backups[dep[h].ts] # current
       => backups'[dep[h].ts] = backups[dep[h].ts]]_vars

\* C33: a deploy whose BACKUP phase succeeded does not end with a rollback
\* that failed because the backup was not found
C33_RestoreFindsBackup ==
  \A h \in Handlers :
     pc[h] = "done" /\ dep[h].bkState /\ dep[h].bkConfig
       => "backup not found" \notin dep[h].msg

\* C34: when a deploy has returned with a failed PROMOTE that had found a
\* current/, a current/ exists
C34_FailedPromoteKeepsCurrent ==
  [][\A h \in Handlers :
       /\ pc[h] \in {"promote", "promoteMove", "promoteRename"} /\ pc'[h] = "done"
       /\ dep'[h].res = "promote staging"
       /\ dep[h].moved \/ Exists(current)
       => Exists(current')]_vars

\* C35: the step in which GEN fails, or PULL fails with another error than
\* "No such service", ends the deploy: it creates no backup and no state
\* file, leaves current/ and the State as they are, and the deploy has run
\* neither BACKUP nor UP
C35_EarlyFailureTouchesNothing ==
  [][\A h \in Handlers :
       /\ pc[h] \in {"gen", "pull"} /\ dep'[h] # dep[h]
       /\ dep'[h].perr \/ dep'[h].res = "generate"
       => /\ pc'[h] = "done"
          /\ UNCHANGED <<backups, stateFiles, current, store>>
          /\ Range(dep'[h].phases) \subseteq {"GEN", "PULL"}
          /\ ~dep'[h].bkState /\ ~dep'[h].bkConfig /\ ~dep'[h].promoted]_vars

\* a deploy has ended in PULL, and one in GEN
C35_Witness ==
  \E h, g \in Handlers :
     /\ pc[h] = "done" /\ dep[h].res = "docker pull"
     /\ pc[g] = "done" /\ dep[g].res = "generate"

\* C39: when a deploy that has generated its staging directory returns
\* without having promoted it, the directory is gone
C39_StagingRemoved ==
  [][\A h \in Handlers :
       /\ pc[h] \notin {"idle", "gen", "done"} /\ pc'[h] = "done"
       /\ ~dep'[h].promoted
       => ~Exists(staging'[dep[h].sts])]_vars

\* C36: WaitHealthy returns nil only while the deadline has not passed, and
\* its timeout error no later than one poll interval after the deadline
C36_ReturnsByDeadline ==
  pure.f = "WaitHealthy.loop" /\ pure.done =>
    /\ pure.ret = "nil" => pure.arg.at <= pure.arg.deadline
    /\ pure.ret = "timeout waiting for services to become healthy"
         => pure.arg.at <= pure.arg.deadline + TickerPeriod

\* C38: a POST /services answered 409 has had no CNAME ensured
C38_ConflictBeforeDNS ==
  \A r \in Reqs :
     req[r].op = "add" /\ req[r].pc = "done" /\ req[r].status = 409 => req[r].dns = {}

\* C40: a service stored for a POST /services that said "enabled": false is
\* stored disabled, and one stored for a request without "enabled" enabled
C40_EnabledAsRequested ==
  \A r \in Reqs :
     req[r].op = "add" /\ req[r].pc = "done" /\ req[r].status = 200 =>
       \A n \in DOMAIN store.services :
          store.services[n].name = req[r].name =>
            store.services[n].enabled = (req[r].enabled # "false")

\* strings.ToLower of a hostname
LowerHost(h) ==
  IF h.dom = "A.io" THEN Host(h.sub, "a.io")
  ELSE IF h.dom = "B.io" THEN Host(h.sub, "b.io") ELSE h

\* C37: in cloudflared/config.yml the hostnames of the ingress rules ascend
\* under case-insensitive comparison, none occurs twice in any letter case,
\* and the last rule is http_status:404
C37_IngressSorted ==
  pure.f = "GenerateBaseFiles" =>
    \A m \in DOMAIN pure.ret :
       LET c == pure.ret[m].files.cloudflared IN
       /\ c[Len(c)].k = "http_status:404"
       /\ \A i, j \in 2..(Len(c) - 1) :
            i < j => HostRank(LowerHost(c[i].s)) < HostRank(LowerHost(c[j].s))

====
